---- MODULE Spec2Model ----
(***************************************************************************)
(* A model of the block-lattice facade (core/lattice.go) and of the        *)
(* Consensus entry points (core/consensus.go) of dexon-consensus.          *)
(*                                                                         *)
(* The facade functions are translated from the source.  latticeData,      *)
(* blockPool, totalOrdering, consensusTimestamp and reliableBroadcast are  *)
(* used by the facade but their files are not part of the source tree at   *)
(* hand; they are modelled from the design document (sections 4.2 - 4.6).  *)
(***************************************************************************)
EXTENDS Integers, Sequences, FiniteSets, TLC

\* ------------------------------------------------------------------------
\* Bounds of the model and configuration values.

\* cfg.NumChains given to NewLattice.
NumChains == 2
\* Highest block height the environment submits for admission.
MaxHeight == 1
\* Timestamps and propose times range over 0 .. MaxTime.
MaxTime == 1
\* The environment stops submitting premature blocks once the pool holds
\* this many blocks.
MaxPool == 2
\* Rounds for which the environment appends configs.
MaxRound == 2
\* cfg.MinBlockInterval / cfg.MaxBlockInterval given to newLatticeData.
MinBlockInterval == 0
MaxBlockInterval == 1
\* The timestamp of the blocks the network delivers.
BlockTime == 1
\* The most blocks the callers hold as checked at a time.
MaxChecked == 2
\* The compaction chain or db.Update may fail at the first .. MaxFail-th
\* block a call of Consensus.processBlock delivers.
MaxFail == 2

Chains == 0 .. (NumChains - 1)
Heights == 0 .. MaxHeight
Times == 0 .. MaxTime
Threads == {"t1", "t2"}
None == "none"

\* ------------------------------------------------------------------------
\* Sequences helpers.

Range(s) == {s[i] : i \in 1 .. Len(s)}

RECURSIVE SeqFilter(_, _)
SeqFilter(s, keep) ==
    IF s = <<>> THEN <<>>
    ELSE IF Head(s) \in keep THEN <<Head(s)>> \o SeqFilter(Tail(s), keep)
    ELSE SeqFilter(Tail(s), keep)

RECURSIVE SetMax(_)
SetMax(S) ==
    LET x == CHOOSE y \in S : TRUE
    IN IF S = {x} THEN x
       ELSE LET m == SetMax(S \ {x}) IN IF x > m THEN x ELSE m

\* ------------------------------------------------------------------------
\* Blocks, hashes and signatures.

\* types.Position / an ack: the acked block's place in the lattice.
Pos(c, h) == [chain |-> c, height |-> h]

\* hashBlock: the canonical hash over the hashed fields, in a fixed order.
\* Distinct field values give distinct hashes.
hashBlock(b) == <<b.proposer, b.round, b.chain, b.height, b.acks, b.ts>>

\* A hash that is the hash of no block (a flipped byte).
FlippedHash == <<"flipped">>

\* prv.Sign(hash): the signature binds the key and the signed hash.
Sign(key, hash) == [key |-> key, over |-> hash]

\* A public key different from key, as signature recovery yields when the
\* signature was made over another hash.
OtherKey(key) == key + NumChains + 1

\* crypto.SigToPub(hash, sig): recovers the signer's key when sig was made
\* over hash, and some unrelated key otherwise.
SigToPub(hash, sig) == IF sig.over = hash THEN sig.key ELSE OtherKey(sig.key)

\* The node that proposes on chain c holds key c.
Content(c, h, r, acks, ts) ==
    [proposer |-> c, round |-> r, chain |-> c, height |-> h,
     acks |-> acks, ts |-> ts]

\* authModule.SignBlock: fills Hash and Signature.
SignBlock(b, key) ==
    [proposer |-> b.proposer, round |-> b.round, chain |-> b.chain,
     height |-> b.height, acks |-> b.acks, ts |-> b.ts,
     hash |-> hashBlock(b), sig |-> Sign(key, hashBlock(b))]

\* Ack lists a well-formed block on chain c may carry: none, or one ack of
\* the first block of another chain.
AckOpts(c) == {<<>>} \cup {<<Pos(c2, 0)>> : c2 \in Chains \ {c}}

\* Well-formed, correctly hashed and signed blocks, as the network delivers
\* them; they carry the timestamp BlockTime.
GoodBlocks ==
    UNION {{SignBlock(Content(c, h, 0, a, BlockTime), c) :
                h \in Heights, a \in AckOpts(c)} :
           c \in Chains}

\* The well-formed block of chain c at height h with the given acks.
Blk(c, h, acks) == SignBlock(Content(c, h, 0, acks, BlockTime), c)

\* What the network delivers in one run to a single caller: blocks that
\* ack across the chains, a block whose ack its chain has acked before,
\* two blocks at one position, blocks that arrive before their parents.
Deliveries ==
    {{Blk(0, 0, <<>>), Blk(1, 0, <<Pos(0, 0)>>), Blk(0, 1, <<Pos(1, 0)>>)},
     {Blk(1, 0, <<>>), Blk(0, 0, <<Pos(1, 0)>>), Blk(0, 1, <<Pos(1, 0)>>)},
     {Blk(1, 0, <<>>), Blk(0, 0, <<>>), Blk(0, 0, <<Pos(1, 0)>>)},
     {Blk(0, 0, <<>>), Blk(0, 1, <<>>), Blk(1, 1, <<>>)}}

\* What the network delivers in one run to a Consensus: blocks that ack
\* across the chains.
ConDeliveries ==
    {{Blk(0, 0, <<>>), Blk(1, 0, <<Pos(0, 0)>>), Blk(0, 1, <<Pos(1, 0)>>)},
     {Blk(0, 0, <<>>), Blk(1, 0, <<>>), Blk(0, 1, <<Pos(1, 0)>>),
      Blk(1, 1, <<Pos(0, 1)>>)}}

\* What the network delivers to two concurrent callers: the second blocks
\* of chain 0.
ConcInputs == {Blk(0, 1, <<>>), Blk(0, 1, <<Pos(1, 0)>>)}

\* The block the malformed blocks are derived from: the block of chain 0
\* at height 1 without acks.
FlawBase == {Content(0, 1, 0, <<>>, BlockTime)}

\* Malformed blocks: flipped hash, forged signature, unsorted acks,
\* self-ack, chain out of range, wrong round, and chain out of range
\* together with a flipped hash.
BadBlocks ==
    {[SignBlock(x, 0) EXCEPT !.hash = FlippedHash] : x \in FlawBase}
    \cup {SignBlock(x, NumChains) : x \in FlawBase}
    \cup {SignBlock([x EXCEPT !.acks = <<Pos(1, 1), Pos(1, 0)>>], 0) :
            x \in FlawBase}
    \cup {SignBlock([x EXCEPT !.acks = <<Pos(0, 0)>>], 0) : x \in FlawBase}
    \cup {SignBlock([x EXCEPT !.chain = NumChains], 0) : x \in FlawBase}
    \cup {SignBlock([x EXCEPT !.round = 1], 0) : x \in FlawBase}
    \cup {[SignBlock([x EXCEPT !.chain = NumChains], 0)
                EXCEPT !.hash = FlippedHash] : x \in FlawBase}

Universe == GoodBlocks \cup BadBlocks

\* Ack.Less: acks are ordered by (chain, height).
AckLess(a, b) ==
    a.chain < b.chain \/ (a.chain = b.chain /\ a.height < b.height)

\* ------------------------------------------------------------------------
\* Error values.

Nil == "nil"
ErrIncorrectHash == "ErrIncorrectHash"
ErrAcksNotSorted == "ErrAcksNotSorted"
ErrIncorrectSignature == "ErrIncorrectSignature"
ErrInvalidBlock == "ErrInvalidBlock"
ErrIncorrectBlockPosition == "ErrIncorrectBlockPosition"
ErrAckingBlockNotExists == "ErrAckingBlockNotExists"
ErrSelfAck == "ErrSelfAck"
ErrDuplicateAck == "ErrDuplicateAck"
ErrNonMonotonicAckHeight == "ErrNonMonotonicAckHeight"
ErrTimestampOutOfWindow == "ErrTimestampOutOfWindow"
ErrUnexpectedBlock == "ErrUnexpectedBlock"
ErrBatchNotContinuous == "ErrBatchNotContinuous"
ErrConfigOutOfOrder == "ErrConfigOutOfOrder"
ErrDB == "ErrDB"
ErrBlockAlreadyAdmitted == "ErrBlockAlreadyAdmitted"
ErrCancelled == "ErrCancelled"

\* ------------------------------------------------------------------------
\* latticeData (design document 3, 4.3, 4.4).
\*   chains[c] : the blocks admitted on chain c, by ascending height
\*   acked     : hashes of the blocks already reported as strongly acked
\*   round     : the active round

newLatticeData(round) ==
    [chains |-> [c \in Chains |-> <<>>], acked |-> {}, round |-> round]

Admitted(data) == UNION {Range(data.chains[c]) : c \in Chains}

\* The height the next block of chain c must have: one above the tip.
nextHeight(data, c) ==
    IF data.chains[c] = <<>> THEN 0
    ELSE data.chains[c][Len(data.chains[c])].height + 1

\* Whether a block has been admitted at position p.
Exists(data, p) ==
    p.chain \in Chains /\ \E x \in Range(data.chains[p.chain]) :
                              x.height = p.height

\* The block admitted (first) at position p.
BlockAt(data, p) ==
    LET q == data.chains[p.chain]
        i == CHOOSE j \in 1 .. Len(q) :
                 q[j].height = p.height
                 /\ \A k \in 1 .. (j - 1) : q[k].height # p.height
    IN q[i]

\* The positions a block refers to: its parent and its acks.
DirectRefs(b) ==
    (IF b.height > 0 THEN {Pos(b.chain, b.height - 1)} ELSE {})
        \cup Range(b.acks)

\* The positions reachable from P through admitted blocks.
RECURSIVE Closure(_, _)
Closure(data, P) ==
    LET Q == P \cup UNION {DirectRefs(BlockAt(data, p)) :
                              p \in {q \in P : Exists(data, q)}}
    IN IF Q = P THEN P ELSE Closure(data, Q)

\* The positions block x acks, directly or transitively.
AckedBy(data, x) == Closure(data, DirectRefs(x))

\* f = floor((N-1)/3).
FaultBound == (NumChains - 1) \div 3

\* S(b): the chains that admitted a block which acks b.
StrongAckers(data, b) ==
    {c \in Chains : \E x \in Range(data.chains[c]) :
        Pos(b.chain, b.height) \in AckedBy(data, x)}

IsStronglyAcked(data, b) ==
    Cardinality(StrongAckers(data, b)) >= 2 * FaultBound + 1

\* The blocks of set S as a sequence ordered by chain, and within a chain
\* as admitted (by height).
RECURSIVE InChainOrder(_, _, _)
InChainOrder(data, S, c) ==
    IF c >= NumChains THEN <<>>
    ELSE SeqFilter(data.chains[c], S) \o InChainOrder(data, S, c + 1)

\* The highest height of chain c2 acked by the blocks admitted on chain c,
\* -1 when there is none.
lastAck(data, c, c2) ==
    LET hs == {a.height : a \in
                 {a2 \in UNION {Range(x.acks) : x \in Range(data.chains[c])} :
                     a2.chain = c2}}
    IN IF hs = {} THEN -1 ELSE SetMax(hs)

\* The timestamp window of design document 4.3, step 5.
TimestampOk(data, b) ==
    LET refs == DirectRefs(b)
        base == SetMax({BlockAt(data, p).ts : p \in refs})
    IN refs = {} \/
       (base + MinBlockInterval <= b.ts /\ b.ts <= base + MaxBlockInterval)

\* latticeData.sanityCheck: the five checks of design document 4.3, in
\* order.  A block whose parent or acked block is not admitted yet fails
\* with ErrAckingBlockNotExists.
sanityCheck(data, b) ==
    IF b.chain \notin Chains \/ b.round # data.round
        THEN ErrIncorrectBlockPosition
    ELSE IF b.height < nextHeight(data, b.chain)
        THEN ErrIncorrectBlockPosition
    ELSE IF \E i \in 2 .. Len(b.acks) : ~AckLess(b.acks[i - 1], b.acks[i])
        THEN ErrAcksNotSorted
    ELSE IF \E a \in Range(b.acks) : a.chain = b.chain
        THEN ErrSelfAck
    ELSE IF \E i, j \in 1 .. Len(b.acks) :
                i # j /\ b.acks[i].chain = b.acks[j].chain
        THEN ErrDuplicateAck
    ELSE IF \E p \in DirectRefs(b) : ~Exists(data, p)
        THEN ErrAckingBlockNotExists
    ELSE IF \E a \in Range(b.acks) : a.height <= lastAck(data, b.chain, a.chain)
        THEN ErrNonMonotonicAckHeight
    ELSE IF ~TimestampOk(data, b)
        THEN ErrTimestampOutOfWindow
    ELSE Nil

\* latticeData.addBlock, once b is the tip of its chain in d1: the blocks
\* that have become strongly acked are marked and returned by (chain,
\* height).
addBlockAcked(d1, newly) ==
    [err |-> Nil,
     data |-> [d1 EXCEPT !.acked = @ \cup {x.hash : x \in newly}],
     inLattice |-> InChainOrder(d1, newly, 0)]

\* The admitted blocks that are strongly acked and were not so before.
NewlyAcked(data) ==
    {x \in Admitted(data) :
        x.hash \notin data.acked /\ IsStronglyAcked(data, x)}

\* latticeData.addBlock: "must be called only after sanity check
\* succeeds"; it makes b the tip of its chain and returns the blocks that
\* have become strongly acked.  A re-delivered block is rejected and the
\* lattice is left as it was.
addBlock(data, b) ==
    IF b.hash \in {x.hash : x \in Admitted(data)}
    THEN [err |-> ErrBlockAlreadyAdmitted, data |-> data, inLattice |-> <<>>]
    ELSE addBlockAcked(
            [data EXCEPT !.chains[b.chain] = Append(@, b)],
            NewlyAcked([data EXCEPT !.chains[b.chain] = Append(@, b)]))

\* The acks prepareBlock gives a block on chain c: the tip of every other
\* chain that this chain has not acked yet, by ascending chain.
RECURSIVE prepareAcks(_, _, _)
prepareAcks(data, c, c2) ==
    IF c2 >= NumChains THEN <<>>
    ELSE (IF c2 # c /\ nextHeight(data, c2) - 1 > lastAck(data, c, c2)
          THEN <<Pos(c2, nextHeight(data, c2) - 1)>> ELSE <<>>)
         \o prepareAcks(data, c, c2 + 1)

\* latticeData.nextPosition.
nextPosition(data, c) ==
    [round |-> data.round, chain |-> c, height |-> nextHeight(data, c)]

\* latticeData.prepareBlock: fills position, parent and acks.
prepareBlock(data, c) ==
    Content(c, nextHeight(data, c), data.round, prepareAcks(data, c, 0), 0)

\* ------------------------------------------------------------------------
\* blockPool (design document 4.2): per chain, the buffered blocks by
\* ascending height.

newBlockPool == [c \in Chains |-> <<>>]

\* insert b into one chain's queue, keeping it ordered; duplicates are
\* rejected.
RECURSIVE poolInsert(_, _)
poolInsert(q, b) ==
    IF q = <<>> THEN <<b>>
    ELSE IF Head(q).hash = b.hash THEN q
    ELSE IF Head(q).height > b.height
            /\ \A i \in 1 .. Len(q) : q[i].hash # b.hash
        THEN <<b>> \o q
    ELSE <<Head(q)>> \o poolInsert(Tail(q), b)

\* blockPool.tip
tip(pool, c) == IF pool[c] = <<>> THEN None ELSE Head(pool[c])

\* blockPool.removeTip
removeTip(pool, c) == [pool EXCEPT ![c] = Tail(@)]

\* blockPool.purgeBlocks: drops the blocks of chain c at height <= h.
purgeBlocks(pool, c, h) ==
    [pool EXCEPT ![c] = SeqFilter(@, {x \in Range(@) : x.height > h})]

PoolBlocks(pool) == UNION {Range(pool[c]) : c \in Chains}

PoolSize(pool) == Cardinality(PoolBlocks(pool))

\* ------------------------------------------------------------------------
\* totalOrdering (design document 4.5).
\*   cand : the candidate set C, strongly acked and not yet delivered
\*   seen : hashes of every block given to the module

\* float32 values of the threshold expression are written as integers in
\* units of 2^-24 (the spacing of float32 below 1): Unit is 1.0.
Unit == 16777216

\* cfg.PhiRatio of the model's rounds: float32(0.667), in units of 2^-24.
PhiRatio == 11190403

\* The spacing, in units, of the float32 values around x >= 0: 2^-24 below
\* 1.0 and doubling with every power of two.
RECURSIVE Ulp(_, _)
Ulp(x, u) == IF x < Unit * u THEN u ELSE Ulp(x, 2 * u)

\* The float32 nearest to x, ties to the even mantissa.
RoundToFloat32(x) ==
    LET u == Ulp(x, 1)
        q == x \div u
        r == x % u
    IN IF 2 * r < u THEN q * u
       ELSE IF 2 * r > u THEN (q + 1) * u
       ELSE IF q % 2 = 0 THEN q * u
       ELSE (q + 1) * u

\* uint64(float32(n-1)*phi + 1), the threshold given to newTotalOrdering.
\* The product is rounded to float32 before the addition, or the build
\* fuses the two operations and rounds once.
float32Threshold(n, phi, fused) ==
    IF fused
    THEN RoundToFloat32((n - 1) * phi + Unit) \div Unit
    ELSE RoundToFloat32(RoundToFloat32((n - 1) * phi) + Unit) \div Unit

Threshold(n) == float32Threshold(n, PhiRatio, FALSE)

newTotalOrdering == [cand |-> {}, seen |-> {}]

PosOf(b) == Pos(b.chain, b.height)

\* The candidates block x acks, directly or transitively within C.
RECURSIVE CandClosure(_, _)
CandClosure(C, S) ==
    LET S2 == S \cup {y \in C : \E x \in S : PosOf(y) \in DirectRefs(x)}
    IN IF S2 = S THEN S ELSE CandClosure(C, S2)

CandAcked(C, x) == CandClosure(C, {x}) \ {x}

\* ack_count[x]: the chains with a candidate that acks x.
AckCount(C, x) ==
    Cardinality({c \in Chains :
        \E y \in C : y.chain = c /\ x \in CandAcked(C, y)})

\* The precedence-closed part of D.
RECURSIVE PrecedenceClosed(_, _)
PrecedenceClosed(C, D) ==
    LET D2 == {x \in D : CandAcked(C, x) \subseteq D}
    IN IF D2 = D THEN D ELSE PrecedenceClosed(C, D2)

\* The order of the blocks' keys: by position, then by the other hashed
\* fields.
KeyLess(x, y) ==
    \/ AckLess(PosOf(x), PosOf(y))
    \/ PosOf(x) = PosOf(y) /\ x.ts < y.ts
    \/ PosOf(x) = PosOf(y) /\ x.ts = y.ts /\ Len(x.acks) < Len(y.acks)
    \/ PosOf(x) = PosOf(y) /\ x.ts = y.ts /\ Len(x.acks) = Len(y.acks)
        /\ Len(x.acks) > 0 /\ AckLess(x.acks[1], y.acks[1])

\* The blocks of a set in ascending order of their key.
RECURSIVE InKeyOrder(_)
InKeyOrder(S) ==
    IF S = {} THEN <<>>
    ELSE LET m == CHOOSE x \in S : \A y \in S : ~KeyLess(y, x)
         IN <<m>> \o InKeyOrder(S \ {m})

\* totalOrdering.processBlock, once the batch D is chosen among the
\* candidates C.
toDeliver(to, b, C, D) ==
    [err |-> Nil,
     to |-> [cand |-> C \ D, seen |-> to.seen \cup {b.hash}],
     delivered |-> InKeyOrder(D), early |-> FALSE]

\* Every candidate is delivered at once.
DeliverableAtOnce(C) == C

\* The batch: the precedence-closed set of candidates whose ack count
\* reaches the threshold.
Deliverable(C) ==
    PrecedenceClosed(C, {x \in C : AckCount(C, x) >= Threshold(NumChains)})

\* totalOrdering.processBlock: a block given twice is a logic error; else
\* the batch is delivered.  The early rule is left open by the design
\* document; every batch is a normal one.
toProcessBlock(to, b) ==
    IF b.hash \in to.seen
    THEN [err |-> ErrUnexpectedBlock, to |-> to, delivered |-> <<>>,
          early |-> FALSE]
    ELSE toDeliver(to, b, to.cand \cup {b}, Deliverable(to.cand \cup {b}))

\* ------------------------------------------------------------------------
\* consensusTimestamp (design document 4.6).
\*   lastTs : the last timestamp assigned
\*   next   : per chain, the height the next delivered block must have
\*   known  : the proposal timestamps of the delivered blocks, by position

newConsensusTimestamp ==
    [lastTs |-> -1, next |-> [c \in Chains |-> 0], known |-> {}]

\* The middle element of the sorted timestamps.
Median(tss) == SortSeq(tss, LAMBDA a, b : a < b)[(Len(tss) + 1) \div 2]

RECURSIVE AckedTimes(_, _)
AckedTimes(known, acks) ==
    IF acks = <<>> THEN <<>>
    ELSE LET k == {x \in known : x.pos = Head(acks)}
         IN (IF k = {} THEN <<>> ELSE <<(CHOOSE x \in k : TRUE).ts>>)
            \o AckedTimes(known, Tail(acks))

\* consensusTimestamp.processBlocks: stamps the blocks of a batch in order;
\* stops with ErrBatchNotContinuous at a block out of its chain's sequence.
RECURSIVE ctProcessBlocks(_, _)
ctProcessBlocks(ct, batch) ==
    IF batch = <<>> THEN [err |-> Nil, ct |-> ct]
    ELSE LET b == Head(batch)
             known == ct.known \cup
                 {[pos |-> PosOf(x), ts |-> x.ts] : x \in Range(batch)}
             med == Median(AckedTimes(known, b.acks) \o <<b.ts>>)
             t == IF med > ct.lastTs THEN med ELSE ct.lastTs + 1
         IN IF b.height # ct.next[b.chain]
            THEN [err |-> ErrBatchNotContinuous, ct |-> ct]
            ELSE ctProcessBlocks(
                    [lastTs |-> t,
                     next |-> [ct.next EXCEPT ![b.chain] = @ + 1],
                     known |-> ct.known \cup
                                 {[pos |-> PosOf(b), ts |-> b.ts]}],
                    Tail(batch))

\* ------------------------------------------------------------------------
\* blockdb.BlockDatabase: the hashes of the stored blocks.  A Put fails on
\* an I/O failure and when the block is stored already.

dbPut(db, b, ok) ==
    IF ok /\ b.hash \notin db
    THEN [err |-> Nil, db |-> db \cup {b.hash}]
    ELSE [err |-> ErrDB, db |-> db]

\* ------------------------------------------------------------------------
\* The Lattice facade (core/lattice.go).

\* Application and Debug callbacks, as they are recorded.
Event(kind, hashes, early) ==
    [kind |-> kind, hashes |-> hashes, early |-> early]

HashesOf(blocks) == [i \in 1 .. Len(blocks) |-> blocks[i].hash]

\* PreCheck without the check of the hash.
PreCheckNoHash(b, appOk) ==
    IF \E i \in 2 .. Len(b.acks) : ~AckLess(b.acks[i - 1], b.acks[i])
        THEN ErrAcksNotSorted
    ELSE IF b.proposer # SigToPub(b.hash, b.sig) THEN ErrIncorrectSignature
    ELSE IF ~appOk THEN ErrInvalidBlock
    ELSE Nil

\* Lattice.SanityCheck, the part before the lock: hash, order of the acks,
\* signer, application.
PreCheck(b, appOk) ==
    IF hashBlock(b) # b.hash THEN ErrIncorrectHash
    ELSE IF \E i \in 2 .. Len(b.acks) : ~AckLess(b.acks[i - 1], b.acks[i])
        THEN ErrAcksNotSorted
    ELSE IF b.proposer # SigToPub(b.hash, b.sig) THEN ErrIncorrectSignature
    ELSE IF ~appOk THEN ErrInvalidBlock
    ELSE Nil

\* The callbacks Lattice.SanityCheck makes: app.VerifyBlock, once the hash,
\* the acks and the signer are found in order.
SanityCheckCalls(b) ==
    IF PreCheck(b, TRUE) = Nil
    THEN <<Event("VerifyBlock", <<b.hash>>, FALSE)>> ELSE <<>>

\* ShelvesBlock for every error of the lattice-data check found once the
\* block's position is in order.
ShelvesAnyError(err) == err \notin {Nil, ErrIncorrectBlockPosition}

\* Lattice.SanityCheck, the part under the lock: whether the failed block
\* is put into the pool.
ShelvesBlock(err) == err = ErrAckingBlockNotExists

RECURSIVE replayTips(_, _, _, _, _)

\* replayTip that leaves the tip in the pool.
replayTipKept(data, pool, i, verified, e) ==
    replayTips(data, pool, i + 1,
               IF e = Nil THEN Append(verified, Head(pool[i])) ELSE verified,
               e)

\* replayTip that takes the tip out of the pool whatever the outcome.
replayTipAlways(data, pool, i, verified, e) ==
    replayTips(data, removeTip(pool, i), i + 1,
               IF e = Nil THEN Append(verified, Head(pool[i])) ELSE verified,
               e)

\* replayTip that takes only a tip that passes out of the pool.
replayTipFailedKept(data, pool, i, verified, e) ==
    IF e = Nil
    THEN replayTips(data, removeTip(pool, i), i + 1,
                    Append(verified, Head(pool[i])), e)
    ELSE replayTips(data, pool, i + 1, verified, e)

\* Lattice.ProcessBlock, lines 176-182: what the replay does with the tip
\* of chain i once it is checked again with outcome e.
replayTip(data, pool, i, verified, e) ==
    IF e = ErrAckingBlockNotExists
    THEN replayTips(data, pool, i + 1, verified, e)
    ELSE replayTips(data, removeTip(pool, i), i + 1,
                    IF e = Nil THEN Append(verified, Head(pool[i]))
                    ELSE verified, e)

\* Lattice.ProcessBlock, lines 171-183: the replay of the pool's tips from
\* chain i on.  err is the function's err variable.
replayTips(data, pool, i, verified, err) ==
    IF i >= NumChains
    THEN [pool |-> pool, verified |-> verified, err |-> err]
    ELSE IF pool[i] = <<>>
    THEN replayTips(data, pool, i + 1, verified, err)
    ELSE replayTip(data, pool, i, verified,
                   sanityCheck(data, Head(pool[i])))

RECURSIVE orderBlocks(_, _, _, _, _, _, _)

\* Lattice.ProcessBlock, lines 201-204: the batch r delivered is stamped
\* with outcome c.
stampBatch(inLattice, delivered, cbs2, hasDebug, r, c) ==
    IF c.err # Nil
    THEN [to |-> r.to, ct |-> c.ct, delivered |-> delivered,
          cbs |-> cbs2, err |-> c.err]
    ELSE orderBlocks(Tail(inLattice), r.to, c.ct,
                     delivered \o r.delivered, cbs2, Nil, hasDebug)

\* Lattice.ProcessBlock, lines 188-204: the ordering module has returned r
\* for the first block of inLattice.
orderBlock(inLattice, ct, delivered, cbs, hasDebug, r) ==
    IF r.err # Nil
    THEN [to |-> r.to, ct |-> ct, delivered |-> delivered,
          cbs |-> cbs, err |-> r.err]
    ELSE IF Len(r.delivered) = 0
    THEN orderBlocks(Tail(inLattice), r.to, ct, delivered, cbs, Nil,
                     hasDebug)
    ELSE stampBatch(inLattice, delivered,
                    IF hasDebug
                    THEN Append(cbs, Event("TotalOrderingDelivered",
                                    HashesOf(r.delivered), r.early))
                    ELSE cbs,
                    hasDebug, r, ctProcessBlocks(ct, r.delivered))

\* Lattice.ProcessBlock, lines 185-205: the total ordering of the blocks
\* addBlock returned.  err is the function's err variable.
orderBlocks(inLattice, to, ct, delivered, cbs, err, hasDebug) ==
    IF inLattice = <<>>
    THEN [to |-> to, ct |-> ct, delivered |-> delivered, cbs |-> cbs,
          err |-> err]
    ELSE orderBlock(inLattice, ct, delivered, cbs, hasDebug,
                    toProcessBlock(to, Head(inLattice)))

\* Lattice.ProcessBlock, lines 164-167: the Debug callbacks made for the
\* input once it is stored.
debugAdmitted(input) ==
    <<Event("StronglyAcked", <<input.hash>>, FALSE),
      Event("BlockConfirmed", <<input.hash>>, FALSE)>>

\* Lattice.ProcessBlock, the return: the modules as the call leaves them,
\* the verified and the delivered blocks, the callbacks made, the error.
processed(a, p, rp, o) ==
    [L |-> [data |-> a.data, pool |-> rp.pool, to |-> o.to, ct |-> o.ct,
            db |-> p.db],
     verified |-> rp.verified, delivered |-> o.delivered, cbs |-> o.cbs,
     err |-> o.err]

\* Lattice.ProcessBlock, lines 185-206, after the replay rp of the pool.
orderAdmitted(L, hasDebug, cbs0, a, p, rp) ==
    processed(a, p, rp,
              orderBlocks(a.inLattice, L.to, L.ct, <<>>, cbs0, rp.err,
                          hasDebug))

\* Lattice.ProcessBlock, lines 159-183, after s.db.Put returned p: on an
\* error the call returns; else the Debug callbacks for the input, the
\* purge and the replay of the pool.
afterPut(L, hasDebug, input, a, p) ==
    IF p.err # Nil
    THEN [L |-> [L EXCEPT !.data = a.data, !.db = p.db],
          verified |-> <<>>, delivered |-> <<>>, cbs |-> <<>>,
          err |-> p.err]
    ELSE orderAdmitted(L, hasDebug,
            IF hasDebug THEN debugAdmitted(input) ELSE <<>>,
            a, p,
            replayTips(a.data,
                       purgeBlocks(L.pool, input.chain, input.height),
                       0, <<>>, Nil))

\* afterAdd with the Debug callbacks made before the error of addBlock is
\* looked at.
afterAddDebugFirst(L, hasDebug, input, dbOk, a) ==
    IF a.err # Nil
    THEN [L |-> [L EXCEPT !.data = a.data], verified |-> <<>>,
          delivered |-> <<>>,
          cbs |-> IF hasDebug THEN debugAdmitted(input) ELSE <<>>,
          err |-> a.err]
    ELSE afterPut(L, hasDebug, input, a, dbPut(L.db, input, dbOk))

\* Lattice.ProcessBlock, lines 156-159, after s.data.addBlock returned a.
afterAdd(L, hasDebug, input, dbOk, a) ==
    IF a.err # Nil
    THEN [L |-> [L EXCEPT !.data = a.data], verified |-> <<>>,
          delivered |-> <<>>, cbs |-> <<>>, err |-> a.err]
    ELSE afterPut(L, hasDebug, input, a, dbPut(L.db, input, dbOk))

\* Lattice.ProcessBlock under the lock.  L holds the facade's modules:
\* data, pool, to, ct, db.
ProcessBlock(L, hasDebug, input, dbOk) ==
    afterAdd(L, hasDebug, input, dbOk, addBlock(L.data, input))

\* Lattice.PrepareBlock under the lock: position, parent and acks from the
\* lattice data, the propose time as timestamp, then hash and signature.
PrepareBlock(data, c, proposeTime) ==
    SignBlock([prepareBlock(data, c) EXCEPT !.ts = proposeTime], c)

\* appendConfig of latticeData, totalOrdering and consensusTimestamp: the
\* round must follow the last one appended.
appendConfig(lastRound, round) ==
    IF round = lastRound + 1
    THEN [err |-> Nil, lastRound |-> round]
    ELSE [err |-> ErrConfigOutOfOrder, lastRound |-> lastRound]

\* AppendConfig without the call of ctModule.appendConfig.
AppendConfigNoTimestamp(rounds, round) ==
    IF appendConfig(rounds.data, round).err # Nil
    THEN [err |-> appendConfig(rounds.data, round).err, rounds |-> rounds]
    ELSE [err |-> appendConfig(rounds.to, round).err,
          rounds |-> [rounds EXCEPT
                        !.data = appendConfig(rounds.data, round).lastRound,
                        !.to = appendConfig(rounds.to, round).lastRound]]

\* AppendConfig that returns once the lattice data has taken the config.
AppendConfigDataOnly(rounds, round) ==
    [err |-> appendConfig(rounds.data, round).err,
     rounds |-> [rounds EXCEPT
                   !.data = appendConfig(rounds.data, round).lastRound]]

\* Lattice.AppendConfig under the lock.  rounds holds the last round
\* appended to each of the three modules.
AppendConfig(rounds, round) ==
    LET d == appendConfig(rounds.data, round)
        t == appendConfig(rounds.to, round)
        c == appendConfig(rounds.ct, round)
    IN IF d.err # Nil
       THEN [err |-> d.err, rounds |-> [rounds EXCEPT !.data = d.lastRound]]
       ELSE IF t.err # Nil
       THEN [err |-> t.err,
             rounds |-> [rounds EXCEPT !.data = d.lastRound,
                                       !.to = t.lastRound]]
       ELSE [err |-> c.err,
             rounds |-> [data |-> d.lastRound, to |-> t.lastRound,
                         ct |-> c.lastRound]]

\* ------------------------------------------------------------------------
\* Consensus (core/consensus.go).

\* Consensus.sanityCheck: position, hash, signer.  Every block of the model
\* is of shard 0.
conSanityCheck(b) ==
    IF b.chain >= NumChains THEN ErrIncorrectBlockPosition
    ELSE IF hashBlock(b) # b.hash THEN ErrIncorrectHash
    ELSE IF b.proposer # SigToPub(b.hash, b.sig) THEN ErrIncorrectSignature
    ELSE Nil

\* Block.Clone: a copy, field by field.
Clone(b) ==
    [proposer |-> b.proposer, round |-> b.round, chain |-> b.chain,
     height |-> b.height, acks |-> b.acks, ts |-> b.ts, hash |-> b.hash,
     sig |-> b.sig]

\* reliableBroadcast.processBlock followed by extractBlocks (design
\* document 4.4): a block that does not fit the ack graph is refused; else
\* it is added and the blocks that have become strongly acked are yielded.
rbProcessBlock(rb, b) ==
    IF sanityCheck(rb, b) # Nil
    THEN [err |-> sanityCheck(rb, b), data |-> rb, inLattice |-> <<>>]
    ELSE addBlock(rb, b)

\* db.Put of the blocks of a batch, in order, up to the first failure.
RECURSIVE dbPutAll(_, _, _)
dbPutAll(db, blocks, ok) ==
    IF blocks = <<>> THEN [err |-> Nil, db |-> db]
    ELSE IF dbPut(db, Head(blocks), ok).err # Nil
    THEN [err |-> ErrDB, db |-> db]
    ELSE dbPutAll(db \cup {Head(blocks).hash}, Tail(blocks), ok)

\* db.Update: fails on an I/O failure and when the block is not stored.
dbUpdate(db, b, ok) == IF ok /\ b.hash \in db THEN Nil ELSE ErrDB

\* The number of blocks of the call delivered to the application so far.
DeliveredSoFar(cbs) ==
    Len(SelectSeq(cbs, LAMBDA e : e.kind = "BlockDelivered"))

\* The delivery loop with BlockDelivered ahead of db.Update.
RECURSIVE deliverAllEager(_, _, _, _)
deliverAllEager(blocks, db, cbs, ok) ==
    IF blocks = <<>> THEN [err |-> Nil, cbs |-> cbs]
    ELSE IF dbUpdate(db, Head(blocks),
                     ok.put /\ ok.failAt # DeliveredSoFar(cbs) + 1) # Nil
    THEN [err |-> ErrDB,
          cbs |-> Append(cbs, Event("BlockDelivered",
                                    <<Head(blocks).hash>>, FALSE))]
    ELSE deliverAllEager(Tail(blocks), db,
                    Append(cbs, Event("BlockDelivered",
                                      <<Head(blocks).hash>>, FALSE)),
                    ok)

\* Consensus.processBlock, lines 665-677: per delivered block the
\* compaction chain, db.Update and BlockDelivered, up to the first failure.
\* ok.put tells whether the database accepts writes, ok.failAt the block
\* of the call, if any, at which ccModule.processBlock or db.Update fails.
RECURSIVE deliverAll(_, _, _, _)
deliverAll(blocks, db, cbs, ok) ==
    IF blocks = <<>> THEN [err |-> Nil, cbs |-> cbs]
    ELSE IF dbUpdate(db, Head(blocks),
                     ok.put /\ ok.failAt # DeliveredSoFar(cbs) + 1) # Nil
    THEN [err |-> ErrDB, cbs |-> cbs]
    ELSE deliverAll(Tail(blocks), db,
                    Append(cbs, Event("BlockDelivered",
                                      <<Head(blocks).hash>>, FALSE)),
                    ok)

RECURSIVE conOrderBlocks(_, _, _, _, _, _)

\* Consensus.processBlock, lines 661-677: the batch is stamped with outcome
\* c, then delivered.
conStampBatch(extracted, cbs, dbOk, r, p, c) ==
    IF c.err # Nil
    THEN [to |-> r.to, ct |-> c.ct, db |-> p.db, cbs |-> cbs,
          err |-> c.err]
    ELSE IF deliverAll(r.delivered, p.db, cbs, dbOk).err # Nil
    THEN [to |-> r.to, ct |-> c.ct, db |-> p.db,
          cbs |-> deliverAll(r.delivered, p.db, cbs, dbOk).cbs,
          err |-> ErrDB]
    ELSE conOrderBlocks(Tail(extracted), r.to, c.ct, p.db,
                        deliverAll(r.delivered, p.db, cbs, dbOk).cbs, dbOk)

\* Consensus.processBlock, lines 649-661: db.Put of the batch returned p.
conPutBatch(extracted, ct, cbs, dbOk, r, p) ==
    IF p.err # Nil
    THEN [to |-> r.to, ct |-> ct, db |-> p.db, cbs |-> cbs, err |-> p.err]
    ELSE conStampBatch(extracted,
            Append(cbs, Event("TotalOrderingDelivered",
                              HashesOf(r.delivered), r.early)),
            dbOk, r, p, ctProcessBlocks(ct, r.delivered))

\* Consensus.processBlock, lines 642-653: the ordering module has returned
\* r for the first extracted block.
conOrderBlock(extracted, ct, db, cbs, dbOk, r) ==
    IF r.err # Nil
    THEN [to |-> r.to, ct |-> ct, db |-> db, cbs |-> cbs, err |-> r.err]
    ELSE IF Len(r.delivered) = 0
    THEN conOrderBlocks(Tail(extracted), r.to, ct, db, cbs, dbOk)
    ELSE conPutBatch(extracted, ct, cbs, dbOk, r,
                     dbPutAll(db, r.delivered, dbOk.put))

\* Consensus.processBlock, lines 638-678: the loop over the extracted
\* blocks; StronglyAcked is the first thing done with each.
conOrderBlocks(extracted, to, ct, db, cbs, dbOk) ==
    IF extracted = <<>>
    THEN [to |-> to, ct |-> ct, db |-> db, cbs |-> cbs, err |-> Nil]
    ELSE conOrderBlock(extracted, ct, db,
            Append(cbs, Event("StronglyAcked",
                              <<Head(extracted).hash>>, FALSE)),
            dbOk, toProcessBlock(to, Head(extracted)))

\* Consensus.processBlock, the return: the modules as the call leaves
\* them, the callbacks made, the error.
conProcessed(a, o) ==
    [C |-> [data |-> a.data, to |-> o.to, ct |-> o.ct, db |-> o.db],
     cbs |-> o.cbs, err |-> o.err]

\* Consensus.processBlock, lines 634-678, after rbModule.processBlock
\* returned a: on an error the call returns; else BlockConfirmed for the
\* submitted block, then the loop.
conAfterRb(C, b, dbOk, a) ==
    IF a.err # Nil
    THEN [C |-> C, cbs |-> <<>>, err |-> a.err]
    ELSE conProcessed(a,
            conOrderBlocks(a.inLattice, C.to, C.ct, C.db,
                <<Event("BlockConfirmed", <<b.hash>>, FALSE)>>, dbOk))

\* Consensus.processBlock under the lock.  C holds the modules: data (the
\* reliable broadcast), to, ct, db.
conProcessBlock(C, b, dbOk) ==
    conAfterRb(C, b, dbOk, rbProcessBlock(C.data, b))

\* ------------------------------------------------------------------------
\* The state of the object a run constructs, a Lattice or a Consensus, and
\* of the threads that call it.

VARIABLES
    obj,        \* the object constructed: "Lattice" or "Consensus"
    data,       \* Lattice.data; Consensus.rbModule
    pool,       \* Lattice.pool
    to,         \* toModule
    ct,         \* ctModule
    db,         \* db
    rounds,     \* the last round appended to data, toModule, ctModule
    hasDebug,   \* whether Lattice.debug is not nil
    dbUp,       \* whether the database accepts writes
    lock,       \* the object's lock: its writer and its readers
    pc,         \* where each thread is inside a facade call
    arg,        \* the arguments of the call a thread is inside
    snap,       \* the pool queue a thread has read inside pool.addBlock
    net,        \* the well-formed blocks the network delivers
    checked,    \* the blocks the callers hold as having passed the check
    ret,        \* what the step just taken returned to its caller; left
                \* holds the blocks the call took out of the pool
    hist,       \* per block hash, the callbacks fired so far and the
                \* returns of the block as verified
    active,     \* the threads that call the facade
    ctx         \* Consensus.ctx: whether it is cancelled (done), and the
                \* threads whose processMsg loop is running (loops)

\* The state of the checks of the pure functions and of the two-instance
\* runs; each has a specification of its own, and none is used by Spec.
VARIABLES
    twin,       \* two Lattice instances fed one set of blocks in two orders
    thr,        \* a threshold computation: its inputs and its result
    heap,       \* the block objects of a caller and of the modules, by address
    msg,        \* a message that is signed, changed and verified
    run,        \* the goroutines of Consensus.Run / RunLegacy
    stats       \* a history of events given to NewStats

\* The variables of the object and its callers.
objVars == <<data, pool, to, ct, db, rounds, hasDebug, dbUp, lock, pc, arg,
             snap, net, checked, ret, hist, active, obj, ctx>>

\* The variables Spec leaves alone.
benchVars == <<twin, thr, heap, msg, run, stats>>

vars == <<data, pool, to, ct, db, rounds, hasDebug, dbUp, lock, pc, arg,
          snap, net, checked, ret, hist, active, obj, ctx, twin, thr, heap,
          msg, run, stats>>

\* The blocks the network may deliver next; a single caller is also given
\* malformed ones.
Inputs == IF Cardinality(active) = 1 THEN net \cup BadBlocks ELSE net

Return(op, t, a, err, verified, delivered, cbs, out) ==
    [op |-> op, t |-> t, arg |-> a, err |-> err, verified |-> verified,
     delivered |-> delivered, cbs |-> cbs, out |-> out, left |-> {}]

\* The step just taken returned from no call.
NoReturn == Return(None, None, None, Nil, <<>>, <<>>, <<>>, None)

\* hist after the Debug callbacks cbs of one call.
RECURSIVE Record(_, _)
Record(h, cbs) ==
    IF cbs = <<>> THEN h
    ELSE LET e == Head(cbs)
             hs == Range(e.hashes)
             h2 == [x \in DOMAIN h \cup hs |->
                      IF x \in hs
                      THEN Append(IF x \in DOMAIN h THEN h[x] ELSE <<>>,
                                  e.kind)
                      ELSE h[x]]
         IN Record(h2, Tail(cbs))

RLock(t) == lock.writer = None /\ lock' = [lock EXCEPT !.readers = @ \cup {t}]
RUnlock(t) == lock' = [lock EXCEPT !.readers = @ \ {t}]
Lock(t) ==
    /\ lock.writer = None /\ lock.readers = {}
    /\ lock' = [lock EXCEPT !.writer = t]
Unlock(t) == lock' = [lock EXCEPT !.writer = None]

\* The threads that call the object o of a run.
Callers(o) == IF obj = o THEN active ELSE {}

\* The state after NewLattice(0, cfg, authModule, app, debug, db), or after
\* NewConsensus.
Init ==
    /\ data = newLatticeData(0)
    /\ pool = newBlockPool
    /\ to = newTotalOrdering
    /\ ct = newConsensusTimestamp
    /\ db = {}
    /\ rounds = [data |-> 0, to |-> 0, ct |-> 0]
    /\ hasDebug \in BOOLEAN
    /\ dbUp \in BOOLEAN
    /\ lock = [writer |-> None, readers |-> {}]
    /\ pc = [t \in Threads |-> "idle"]
    /\ arg = [t \in Threads |-> None]
    /\ snap = [t \in Threads |-> None]
    /\ \/ obj = "Lattice" /\ net \in Deliveries \cup {ConcInputs}
       \/ obj = "Consensus" /\ net \in ConDeliveries
    /\ checked = {}
    /\ ret = NoReturn
    /\ hist = <<>>
    /\ active = IF net = ConcInputs THEN Threads ELSE {"t1"}
    /\ ctx = [done |-> FALSE, loops |-> active]
    /\ twin = None
    /\ thr = None
    /\ heap = None
    /\ msg = None
    /\ run = None
    /\ stats = None

\* Lattice.SanityCheck, lines 99-128: the checks before the lock; a block
\* that fails one is returned at once, else the read lock is taken.  The
\* block is one the network delivers or the one PrepareBlock just returned.
SC_Call(t) ==
    \E b \in Inputs \cup {x \in {ret.out} : ret.op = "PrepareBlock"},
       appOk \in BOOLEAN :
        /\ pc[t] = "idle"
        /\ PoolSize(pool) < MaxPool
        /\ Cardinality(checked) < MaxChecked
        /\ IF PreCheck(b, appOk) # Nil
           THEN /\ ret' = Return("SanityCheck", t,
                                 [b |-> b,
                                  fresh |-> ret.op = "PrepareBlock"
                                            /\ ret.out = b],
                                 PreCheck(b, appOk),
                                 <<>>, <<>>, SanityCheckCalls(b), None)
                /\ UNCHANGED <<lock, pc, arg>>
           ELSE /\ RLock(t)
                /\ pc' = [pc EXCEPT ![t] = "sc"]
                /\ arg' = [arg EXCEPT ![t] =
                            [b |-> b,
                             fresh |-> ret.op = "PrepareBlock"
                                       /\ ret.out = b]]
                /\ ret' = NoReturn
        /\ UNCHANGED <<data, pool, to, ct, db, rounds, hasDebug, dbUp, snap,
                       net, checked, hist, active, obj, ctx, benchVars>>

\* Lattice.SanityCheck, lines 129-137: the lattice-data check.  On
\* ErrAckingBlockNotExists pool.addBlock is entered and reads the chain's
\* queue; any other outcome unlocks and returns.
SC_Check(t) ==
    LET b == arg[t].b
        err == sanityCheck(data, b)
    IN /\ pc[t] = "sc"
       /\ IF ShelvesBlock(err)
          THEN /\ pc' = [pc EXCEPT ![t] = "sc_add"]
               /\ snap' = [snap EXCEPT ![t] = pool[b.chain]]
               /\ ret' = NoReturn
               /\ UNCHANGED <<lock, arg, checked>>
          ELSE /\ RUnlock(t)
               /\ pc' = [pc EXCEPT ![t] = "idle"]
               /\ arg' = [arg EXCEPT ![t] = None]
               /\ checked' = IF err = Nil /\ b \in net
                             THEN checked \cup {b} ELSE checked
               /\ ret' = Return("SanityCheck", t, arg[t], err, <<>>, <<>>,
                                SanityCheckCalls(b), None)
               /\ UNCHANGED snap
       /\ UNCHANGED <<data, pool, to, ct, db, rounds, hasDebug, dbUp, net,
                      hist, active, obj, ctx, benchVars>>

\* pool.addBlock writes the chain's queue; the deferred RUnlock; return.
SC_Add(t) ==
    LET b == arg[t].b
    IN /\ pc[t] = "sc_add"
       /\ pool' = [pool EXCEPT ![b.chain] = poolInsert(snap[t], b)]
       /\ RUnlock(t)
       /\ pc' = [pc EXCEPT ![t] = "idle"]
       /\ arg' = [arg EXCEPT ![t] = None]
       /\ snap' = [snap EXCEPT ![t] = None]
       /\ ret' = Return("SanityCheck", t, arg[t], sanityCheck(data, b),
                        <<>>, <<>>, SanityCheckCalls(b), None)
       /\ UNCHANGED <<data, to, ct, db, rounds, hasDebug, dbUp, net, checked,
                      hist, active, obj, ctx, benchVars>>

\* Lattice.ProcessBlock, line 154: the write lock.  The callers submit
\* blocks that passed SanityCheck or were returned as verified.
PB_Lock(t) ==
    \E b \in checked :
        /\ pc[t] = "idle"
        /\ Lock(t)
        /\ pc' = [pc EXCEPT ![t] = "pb"]
        /\ arg' = [arg EXCEPT ![t] = [b |-> b, fresh |-> FALSE]]
        /\ ret' = NoReturn
        /\ UNCHANGED <<data, pool, to, ct, db, rounds, hasDebug, dbUp, snap,
                       net, checked, hist, active, obj, ctx, benchVars>>

\* Lattice.ProcessBlock returns r: the deferred Unlock.  The caller keeps or
\* drops the block it submitted and keeps the verified blocks for
\* submission.
PB_Return(t, keep, r) ==
    /\ data' = r.L.data
    /\ pool' = r.L.pool
    /\ to' = r.L.to
    /\ ct' = r.L.ct
    /\ db' = r.L.db
    /\ hist' = Record(Record(hist, r.cbs),
                      <<Event("Verified", HashesOf(r.verified), FALSE)>>)
    /\ checked' = (IF keep THEN checked ELSE checked \ {arg[t].b})
                     \cup Range(r.verified)
    /\ Unlock(t)
    /\ pc' = [pc EXCEPT ![t] = "idle"]
    /\ arg' = [arg EXCEPT ![t] = None]
    /\ ret' = [Return("ProcessBlock", t, arg[t], r.err,
                       HashesOf(r.verified), HashesOf(r.delivered),
                       r.cbs, None)
                 EXCEPT !.left = PoolBlocks(pool) \ PoolBlocks(r.L.pool)]
    /\ UNCHANGED <<rounds, hasDebug, dbUp, snap, net, active, obj, ctx,
                   benchVars>>

\* Lattice.ProcessBlock, lines 156-207.
PB_Body(t) ==
    \E keep \in BOOLEAN :
        /\ pc[t] = "pb"
        /\ PB_Return(t, keep,
              ProcessBlock([data |-> data, pool |-> pool, to |-> to,
                            ct |-> ct, db |-> db], hasDebug, arg[t].b,
                           dbUp))

\* Lattice.PrepareBlock, line 79: the read lock.
Prep_Lock(t) ==
    \E c \in Chains, proposeTime \in Times :
        /\ pc[t] = "idle"
        /\ RLock(t)
        /\ pc' = [pc EXCEPT ![t] = "prep"]
        /\ arg' = [arg EXCEPT ![t] = [c |-> c, time |-> proposeTime]]
        /\ ret' = NoReturn
        /\ UNCHANGED <<data, pool, to, ct, db, rounds, hasDebug, dbUp, snap,
                       net, checked, hist, active, obj, ctx, benchVars>>

\* Lattice.PrepareBlock, lines 82-91, and the deferred RUnlock.
Prep_Body(t) ==
    LET b == PrepareBlock(data, arg[t].c, arg[t].time)
    IN /\ pc[t] = "prep"
       /\ RUnlock(t)
       /\ pc' = [pc EXCEPT ![t] = "idle"]
       /\ arg' = [arg EXCEPT ![t] = None]
       /\ ret' = Return("PrepareBlock", t, arg[t], Nil, <<>>, <<>>,
                        <<Event("PreparePayload", <<>>, FALSE),
                          Event("PrepareWitness", <<>>, FALSE)>>, b)
       /\ UNCHANGED <<data, pool, to, ct, db, rounds, hasDebug, dbUp, snap,
                      net, checked, hist, active, obj, ctx, benchVars>>

\* Lattice.NextPosition, line 211: the read lock.
NP_Lock(t) ==
    \E c \in Chains :
        /\ pc[t] = "idle"
        /\ RLock(t)
        /\ pc' = [pc EXCEPT ![t] = "np"]
        /\ arg' = [arg EXCEPT ![t] = [c |-> c]]
        /\ ret' = NoReturn
        /\ UNCHANGED <<data, pool, to, ct, db, rounds, hasDebug, dbUp, snap,
                       net, checked, hist, active, obj, ctx, benchVars>>

\* Lattice.NextPosition, line 214, and the deferred RUnlock.
NP_Body(t) ==
    /\ pc[t] = "np"
    /\ RUnlock(t)
    /\ pc' = [pc EXCEPT ![t] = "idle"]
    /\ arg' = [arg EXCEPT ![t] = None]
    /\ ret' = Return("NextPosition", t, arg[t], Nil, <<>>, <<>>, <<>>,
                     nextPosition(data, arg[t].c))
    /\ UNCHANGED <<data, pool, to, ct, db, rounds, hasDebug, dbUp, snap, net,
                   checked, hist, active, obj, ctx, benchVars>>

\* Lattice.AppendConfig, line 220: the write lock.
AC_Lock(t) ==
    \E round \in 0 .. MaxRound :
        /\ pc[t] = "idle"
        /\ Lock(t)
        /\ pc' = [pc EXCEPT ![t] = "ac"]
        /\ arg' = [arg EXCEPT ![t] = [round |-> round]]
        /\ ret' = NoReturn
        /\ UNCHANGED <<data, pool, to, ct, db, rounds, hasDebug, dbUp, snap,
                       net, checked, hist, active, obj, ctx, benchVars>>

\* Lattice.AppendConfig, lines 223-232, and the deferred Unlock.
AC_Body(t) ==
    LET r == AppendConfig(rounds, arg[t].round)
    IN /\ pc[t] = "ac"
       /\ rounds' = r.rounds
       /\ Unlock(t)
       /\ pc' = [pc EXCEPT ![t] = "idle"]
       /\ arg' = [arg EXCEPT ![t] = None]
       /\ ret' = Return("AppendConfig", t, arg[t], r.err, <<>>, <<>>,
                        <<>>, None)
       /\ UNCHANGED <<data, pool, to, ct, db, hasDebug, dbUp, snap, net,
                      checked, hist, active, obj, ctx, benchVars>>

\* Consensus.Stop, lines 477-479: ctxCancel closes ctx.Done().  It is called
\* from outside the loops, at any time.
Stop ==
    /\ obj = "Consensus"
    /\ ~ctx.done
    /\ ctx' = [ctx EXCEPT !.done = TRUE]
    /\ ret' = NoReturn
    /\ UNCHANGED <<data, pool, to, ct, db, rounds, hasDebug, dbUp, lock, pc,
                   arg, snap, net, checked, hist, active, obj, benchVars>>

\* Consensus.processMsg, lines 485-489: the select takes the case of
\* ctx.Done() and the loop returns.
PM_Done(t) ==
    /\ pc[t] = "idle"
    /\ t \in ctx.loops
    /\ ctx.done
    /\ ctx' = [ctx EXCEPT !.loops = @ \ {t}]
    /\ ret' = NoReturn
    /\ UNCHANGED <<data, pool, to, ct, db, rounds, hasDebug, dbUp, lock, pc,
                   arg, snap, net, checked, hist, active, obj, benchVars>>

\* Consensus.processMsg, lines 485-493, with RunLegacy's blockProcesser
\* (line 422), and Consensus.processBlock, lines 620-631.  The select takes
\* a block from the network; when ctx.Done() is closed as well, the select
\* chooses one of the two cases that can proceed, so this case stays
\* possible until the loop has returned.  processBlock checks the block
\* before the lock; a block that fails is returned at once, else the block
\* is cloned and the lock is taken.  late records that the call started
\* with ctx.Done() closed.
CPB_Call(t) ==
    \E b \in Inputs :
        /\ pc[t] = "idle"
        /\ t \in ctx.loops
        /\ IF conSanityCheck(b) # Nil
           THEN /\ ret' = Return("processBlock", t,
                                 [b |-> b, fresh |-> FALSE,
                                  late |-> ctx.done],
                                 conSanityCheck(b), <<>>, <<>>, <<>>, None)
                /\ UNCHANGED <<lock, pc, arg>>
           ELSE /\ Lock(t)
                /\ pc' = [pc EXCEPT ![t] = "cpb"]
                /\ arg' = [arg EXCEPT ![t] = [b |-> Clone(b), fresh |-> FALSE,
                                             late |-> ctx.done]]
                /\ ret' = NoReturn
        /\ UNCHANGED <<data, pool, to, ct, db, rounds, hasDebug, dbUp, snap,
                       net, checked, hist, active, obj, ctx, benchVars>>

\* Consensus.processBlock returns r: the deferred Unlock.
CPB_Return(t, r) ==
    /\ data' = r.C.data
    /\ to' = r.C.to
    /\ ct' = r.C.ct
    /\ db' = r.C.db
    /\ hist' = Record(hist, r.cbs)
    /\ Unlock(t)
    /\ pc' = [pc EXCEPT ![t] = "idle"]
    /\ arg' = [arg EXCEPT ![t] = None]
    /\ ret' = Return("processBlock", t, arg[t], r.err, <<>>, <<>>, r.cbs,
                     None)
    /\ UNCHANGED <<pool, rounds, hasDebug, dbUp, snap, net, checked, active,
                   obj, ctx, benchVars>>

\* Consensus.processBlock, lines 634-679.
CPB_Body(t) ==
    /\ pc[t] = "cpb"
    /\ \E failAt \in 0 .. MaxFail :
         CPB_Return(t, conProcessBlock([data |-> data, to |-> to, ct |-> ct,
                                        db |-> db], arg[t].b,
                                       [put |-> dbUp, failAt |-> failAt]))

Next ==
    \/ \E t \in Callers("Lattice") : SC_Call(t)
    \/ \E t \in Callers("Lattice") : SC_Check(t)
    \/ \E t \in Callers("Lattice") : SC_Add(t)
    \/ \E t \in Callers("Lattice") : PB_Lock(t)
    \/ \E t \in Callers("Lattice") : PB_Body(t)
    \/ \E t \in Callers("Lattice") : Prep_Lock(t)
    \/ \E t \in Callers("Lattice") : Prep_Body(t)
    \/ \E t \in Callers("Lattice") : NP_Lock(t)
    \/ \E t \in Callers("Lattice") : NP_Body(t)
    \/ \E t \in Callers("Lattice") : AC_Lock(t)
    \/ \E t \in Callers("Lattice") : AC_Body(t)
    \/ \E t \in Callers("Consensus") : CPB_Call(t)
    \/ \E t \in Callers("Consensus") : CPB_Body(t)
    \/ \E t \in Callers("Consensus") : PM_Done(t)
    \/ Stop

Spec == Init /\ [][Next]_vars

\* ------------------------------------------------------------------------
\* Properties.

\* The step is the return of a Lattice.ProcessBlock call of thread t.
PB_Returns(t) == pc[t] = "pb" /\ pc'[t] = "idle"

\* What the purge for block b leaves of the queue of chain c.
Purged(c, b) ==
    IF c = b.chain
    THEN SeqFilter(pool[c], {x \in Range(pool[c]) : x.height > b.height})
    ELSE pool[c]

\* Block x heads what the purge for block b leaves of its chain's queue.
HeadsQueue(x, b) ==
    Purged(x.chain, b) # <<>> /\ Head(Purged(x.chain, b)) = x

\* Every block x refers to, its parent aside, is admitted.
OnlyParentMissing(x) ==
    \A p \in DirectRefs(x) \ {Pos(x.chain, x.height - 1)} : Exists(data, p)

\* C1: a thread inside the part of SanityCheck, ProcessBlock or AppendConfig
\* that touches the lattice data and the pool holds the lock as its writer.
C1_WriteLockHeld ==
    \A t \in Threads :
        pc[t] \in {"sc", "sc_add", "pb", "ac"} => lock.writer = t

\* C2: while a thread is inside a mutation of the pool (addBlock in
\* SanityCheck; purgeBlocks, removeTip in ProcessBlock) it holds the lock
\* exclusively and no other thread is inside a facade call.
C2_PoolMutatedAlone ==
    \A t \in Threads :
        pc[t] \in {"sc_add", "pb"} =>
            /\ lock.writer = t
            /\ \A u \in Threads \ {t} : pc[u] = "idle"

\* C3: a SanityCheck call puts its block into the pool when the
\* lattice-data check fails with ErrAckingBlockNotExists, and still returns
\* that error; with every other outcome, and in the steps of the call
\* before its return, the pool is left as it is.
C3_ShelvedIffAckingBlockNotExists ==
    [][/\ (ret'.op = "SanityCheck" /\ ret'.err = ErrAckingBlockNotExists)
            => ret'.arg.b \in Range(pool'[ret'.arg.b.chain])
       /\ (ret'.op = "SanityCheck" /\ ret'.err # ErrAckingBlockNotExists)
            => pool' = pool
       /\ (\E t \in Threads : pc'[t] \in {"sc", "sc_add"} /\ pc'[t] # pc[t])
            => pool' = pool]_vars

\* C3: a SanityCheck call has returned ErrAckingBlockNotExists and its
\* block is in the pool.
C3_Shelved ==
    /\ ret.op = "SanityCheck"
    /\ ret.err = ErrAckingBlockNotExists
    /\ ret.arg.b \in PoolBlocks(pool)

\* C4: a ProcessBlock or processBlock call that returns the error of a
\* database write has made no callback and has left the admitted blocks,
\* the pool, the ordering and the timestamp state as they were.
C4_AllOrNothing ==
    [][(ret'.op \in {"ProcessBlock", "processBlock"} /\ ret'.err = ErrDB)
         => /\ ret'.cbs = <<>>
            /\ data' = data
            /\ pool' = pool
            /\ to' = to
            /\ ct' = ct]_vars

\* The stages of a block, in the order of the design document.
Stage(kind) ==
    CASE kind = "Verified" -> 0
      [] kind = "StronglyAcked" -> 1
      [] kind = "BlockConfirmed" -> 2
      [] kind = "TotalOrderingDelivered" -> 3
      [] kind = "BlockDelivered" -> 4

\* C5: per block, no callback of an earlier stage fires after one of a
\* later stage, the stages being StronglyAcked, BlockConfirmed,
\* TotalOrderingDelivered, BlockDelivered; for a Lattice and a Consensus.
C5_StagesInOrder ==
    \A h \in DOMAIN hist :
        \A i, j \in 1 .. Len(hist[h]) :
            i < j => Stage(hist[h][i]) <= Stage(hist[h][j])

\* C6: SanityCheck of the block PrepareBlock has just returned, on the
\* lattice state PrepareBlock saw, finds no fault in the block, whatever
\* the propose time (the application's own verdict aside; the database
\* accepting writes).
C6_PreparedPassesCheck ==
    (dbUp /\ ret.op = "SanityCheck" /\ ret.arg.fresh)
        => ret.err \in {Nil, ErrInvalidBlock}

C9_HeightsInSequence ==
    (obj = "Lattice" /\ dbUp) =>
        \A c \in Chains :
            \A i \in 1 .. Len(data.chains[c]) :
                data.chains[c][i].height = i - 1

\* C10, as stated: a block whose hash is not the hash of its content is
\* rejected with ErrIncorrectHash by Lattice.SanityCheck and by
\* Consensus.sanityCheck, and no callback is made for it.
C10_BadHashGivesIncorrectHash ==
    (ret.op \in {"SanityCheck", "processBlock"}
        /\ hashBlock(ret.arg.b) # ret.arg.b.hash)
        => ret.err = ErrIncorrectHash /\ ret.cbs = <<>>

\* C10, amended: such a block is rejected with ErrIncorrectHash, except
\* that Consensus.sanityCheck rejects it with ErrIncorrectBlockPosition
\* when its chain is out of range; the call takes no lock, makes no
\* callback and leaves the pool and the lattice data as they are.
C10_BadHashRejectedUntouched ==
    [][(ret'.op \in {"SanityCheck", "processBlock"}
            /\ hashBlock(ret'.arg.b) # ret'.arg.b.hash)
         => /\ ret'.err = IF obj = "Consensus"
                             /\ ret'.arg.b.chain >= NumChains
                          THEN ErrIncorrectBlockPosition
                          ELSE ErrIncorrectHash
            /\ ret'.cbs = <<>>
            /\ UNCHANGED <<pool, lock, pc, data, hist>>]_vars

\* C10: SanityCheck has rejected a block with ErrIncorrectHash while the
\* pool holds a block.
C10_BadHashRejected ==
    /\ ret.op = "SanityCheck"
    /\ ret.err = ErrIncorrectHash
    /\ hashBlock(ret.arg.b) # ret.arg.b.hash
    /\ PoolBlocks(pool) # {}

\* C11: a Stop leaves a processBlock call in flight as it is, to run to its
\* end; and a processBlock call that starts after the Stop returns the error
\* Cancelled and admits nothing.
C11_LateCallCancelled ==
    [][/\ (ctx'.done /\ ~ctx.done) => UNCHANGED <<pc, arg, lock, data>>
       /\ (ret'.op = "processBlock" /\ ret'.arg.late)
            => (ret'.err = ErrCancelled /\ data' = data)]_vars

\* C12: a block that processMsg takes from the network once ctx.Done() is
\* closed causes no callback into the Application.
C12_NoCallbackAfterCancel ==
    (ret.op = "processBlock" /\ ret.arg.late) => ret.cbs = <<>>

\* C13: AppendConfig(round, cfg) succeeds exactly when round is one more
\* than the last round appended (at first the round given to NewLattice);
\* on success the lattice data, the total ordering and the timestamp module
\* have all taken the round, and a rejected call changes none of them.
C13_OnlyNextRound ==
    [][ret'.op = "AppendConfig" =>
        /\ ret'.err = Nil <=> ret'.arg.round = rounds.data + 1
        /\ ret'.err = Nil =>
             rounds' = [data |-> ret'.arg.round, to |-> ret'.arg.round,
                        ct |-> ret'.arg.round]
        /\ ret'.err # Nil => rounds' = rounds]_vars

\* C13: the config of round 2 has been appended, after that of round 1.
C13_SecondRoundAppended ==
    /\ ret.op = "AppendConfig"
    /\ ret.err = Nil
    /\ ret.arg.round = 2
    /\ rounds = [data |-> 2, to |-> 2, ct |-> 2]

\* C14: a ProcessBlock or processBlock call given a block that is admitted
\* already returns an error, and it writes nothing to the database, makes
\* no callback, returns no verified and no delivered block, and leaves the
\* lattice data, the pool, the ordering and the timestamp state as they
\* were.
C14_RedeliveryRejected ==
    [][(ret'.op \in {"ProcessBlock", "processBlock"}
            /\ ret'.arg.b \in Admitted(data))
         => /\ ret'.err # Nil
            /\ ret'.cbs = <<>>
            /\ ret'.verified = <<>>
            /\ ret'.delivered = <<>>
            /\ UNCHANGED <<data, pool, to, ct, db, hist>>]_vars

\* C14: Lattice.ProcessBlock has refused a block that is admitted, while
\* the pool holds a block and the Debug interface is present.
C14_Redelivered ==
    /\ ret.op = "ProcessBlock"
    /\ ret.err = ErrBlockAlreadyAdmitted
    /\ ret.arg.b \in Admitted(data)
    /\ PoolBlocks(pool) # {}
    /\ hasDebug

\* C16: when a ProcessBlock call that has admitted a block at (c, h)
\* returns, the pool holds no block of chain c at a height of h or less.
C16_NoStaleBlockInPool ==
    [][\A t \in Threads :
        (PB_Returns(t)
            /\ arg[t].b \in Admitted(data')
            /\ arg[t].b \notin Admitted(data)) =>
            \A x \in Range(pool'[arg[t].b.chain]) :
                x.height > arg[t].b.height]_vars

\* ------------------------------------------------------------------------
\* The specifications below each exercise one piece of the code on its own
\* variable; the Lattice / Consensus object is not constructed.
NoObject ==
    /\ data = newLatticeData(0)
    /\ pool = newBlockPool
    /\ to = newTotalOrdering
    /\ ct = newConsensusTimestamp
    /\ db = {}
    /\ rounds = [data |-> 0, to |-> 0, ct |-> 0]
    /\ hasDebug = FALSE
    /\ dbUp = TRUE
    /\ lock = [writer |-> None, readers |-> {}]
    /\ pc = [t \in Threads |-> "idle"]
    /\ arg = [t \in Threads |-> None]
    /\ snap = [t \in Threads |-> None]
    /\ obj = None
    /\ net = {}
    /\ checked = {}
    /\ ret = NoReturn
    /\ hist = <<>>
    /\ active = {}
    /\ ctx = [done |-> FALSE, loops |-> {}]

\* ------------------------------------------------------------------------
\* The threshold of the total ordering at construction (lattice.go:65-69,
\* consensus.go:241-244).
\*   thr.numChains : cfg.NumChains          thr.notarySet : len(notarySet)
\*   thr.phi       : cfg.PhiRatio, a float32 in [0, 1], in units of 2^-24
\*   thr.fused     : whether the build fuses the multiplication and the
\*                   addition
\*   thr.built     : the constructors that have run
\*   thr.lattice, thr.consensus : the threshold each constructor has given
\*                   to newTotalOrdering, 0 before it ran
MaxCommittee == 12

\* 0, 0.5, float32(0.667), the float32 just below 1, and 1.
PhiRatios == {0, Unit \div 2, PhiRatio, Unit - 1, Unit}

InitThreshold ==
    /\ NoObject
    /\ thr \in [numChains : 1..MaxCommittee, notarySet : 1..MaxCommittee,
                phi : PhiRatios, fused : BOOLEAN,
                built : {{}}, lattice : {0}, consensus : {0}]
    /\ twin = None /\ heap = None /\ msg = None /\ run = None /\ stats = None

\* NewLattice, lines 65-69.
NewLatticeThreshold ==
    /\ "Lattice" \notin thr.built
    /\ thr' = [thr EXCEPT
                 !.built = @ \cup {"Lattice"},
                 !.lattice = float32Threshold(thr.numChains, thr.phi,
                                              thr.fused)]
    /\ UNCHANGED <<objVars, twin, heap, msg, run, stats>>

\* NewConsensus, lines 241-244.
NewConsensusThreshold ==
    /\ "Consensus" \notin thr.built
    /\ thr' = [thr EXCEPT
                 !.built = @ \cup {"Consensus"},
                 !.consensus = float32Threshold(thr.notarySet, thr.phi,
                                                thr.fused)]
    /\ UNCHANGED <<objVars, twin, heap, msg, run, stats>>

NextThreshold ==
    \/ NewLatticeThreshold
    \/ NewConsensusThreshold

SpecThreshold == InitThreshold /\ [][NextThreshold]_vars

\* floor((n - 1) * phi) + 1 for phi in units of 2^-24.
FloorThreshold(n, phi) == ((n - 1) * phi) \div Unit + 1

\* C17: the threshold each constructor configures is floor((N-1)*phi) + 1,
\* N being the size the constructor reads (cfg.NumChains in NewLattice,
\* len(notarySet) in NewConsensus), for every N >= 1 and phi in [0, 1].
C17_ThresholdIsFloorPlusOne ==
    /\ "Lattice" \in thr.built =>
         thr.lattice = FloorThreshold(thr.numChains, thr.phi)
    /\ "Consensus" \in thr.built =>
         thr.consensus = FloorThreshold(thr.notarySet, thr.phi)

\* ------------------------------------------------------------------------
\* Block objects behind pointers (*types.Block) at the two entry points.
\*   heap.mem    : the block objects: address -> the block's payload
\*   heap.caller : the addresses of the caller's block objects
\*   heap.passed : the caller's blocks already given to the entry point
\*   heap.held   : <<address, payload at admission>> of every block the
\*                 modules hold
\*   heap.entry  : the entry point the caller uses
MaxCallerBlocks == 2
MaxPayload == 2
Payloads == 0..MaxPayload
CallerAddrs == 1..MaxCallerBlocks

\* The address of a newly allocated block object.
NewAddr(mem) == Cardinality(DOMAIN mem) + 1

\* types.Block.Clone: a new object with the same content.
CloneAt(mem, a) == mem @@ (NewAddr(mem) :> mem[a])

\* latticeData.addBlock / reliableBroadcast.processBlock keep the pointer
\* they are given.
addBlockPointer(held, mem, a) == held \cup {<<a, mem[a]>>}

InitHeap ==
    /\ NoObject
    /\ heap \in [mem : [CallerAddrs -> Payloads], caller : {CallerAddrs},
                 passed : {{}}, held : {{}},
                 entry : {"Lattice", "Consensus"}]
    /\ twin = None /\ thr = None /\ msg = None /\ run = None /\ stats = None

\* Lattice.ProcessBlock(input), lines 145-158: input itself is given to
\* data.addBlock.
HeapProcessBlock ==
    \E a \in heap.caller \ heap.passed :
        /\ heap.entry = "Lattice"
        /\ heap' = [heap EXCEPT
                      !.passed = @ \cup {a},
                      !.held = addBlockPointer(@, heap.mem, a)]
        /\ UNCHANGED <<objVars, twin, thr, msg, run, stats>>

\* Consensus.processBlock(block), lines 619-636: b := block.Clone() is given
\* to rbModule.processBlock.
HeapConProcessBlock ==
    \E a \in heap.caller \ heap.passed :
        /\ heap.entry = "Consensus"
        /\ heap' = [heap EXCEPT
                      !.mem = CloneAt(@, a),
                      !.passed = @ \cup {a},
                      !.held = addBlockPointer(@, CloneAt(heap.mem, a),
                                               NewAddr(heap.mem))]
        /\ UNCHANGED <<objVars, twin, thr, msg, run, stats>>

\* The caller writes to a block object it has passed, after the call.
CallerMutates ==
    \E a \in heap.passed, v \in Payloads :
        /\ v # heap.mem[a]
        /\ heap' = [heap EXCEPT !.mem[a] = v]
        /\ UNCHANGED <<objVars, twin, thr, msg, run, stats>>

NextHeap ==
    \/ HeapProcessBlock
    \/ HeapConProcessBlock
    \/ CallerMutates

SpecHeap == InitHeap /\ [][NextHeap]_vars

\* C18: every block the modules hold is a clone taken at ingress: whatever
\* the caller writes to the object it passed, after the call, the block held
\* is as it was admitted.
C18_HeldBlockUnchanged ==
    \A h \in heap.held : heap.mem[h[1]] = h[2]

\* ------------------------------------------------------------------------
\* Signing and verifying messages (the crypto test suite, lattice.go
\* 331-504).  One message is built, signed, possibly changed, and verified.
\*   msg.m        : the message
\*        kind     : which message it is
\*        proposer : ProposerID, the node of the signing key
\*        receiver : ReceiverID of a private share (0 elsewhere)
\*        field    : the hashed field the tests change: the vote's type,
\*                   the block height, the round of a DKG message
\*        share    : the PrivateShare inside a complaint (None elsewhere)
\*        hash     : Block.Hash (of blocks; set when signed)
\*        sig      : the signature
\*   msg.signed   : the message carries a signature
\*   msg.modified : a hashed field was changed since the last signing
\*   msg.verified, msg.ok, msg.err : the last verification and its results
MaxField == 1

Kinds ==
    {"Block", "Vote", "CRS", "PrivateShare", "MasterPublicKey", "Complaint",
     "PartialSignature", "MPKReady", "Finalize"}

NoSignature == Sign(0 - 1, <<>>)

\* hashDKGPrivateShare: over the proposer, the receiver and the round.
hashDKGPrivateShare(ps) ==
    <<"PrivateShare", ps.proposer, ps.receiver, ps.field>>

\* A hash function that leaves the changed field out.
hashMessageNoField(m) ==
    IF m.kind = "PrivateShare" THEN hashDKGPrivateShare(m)
    ELSE IF m.kind = "Complaint"
    THEN <<m.kind, m.proposer, hashDKGPrivateShare(m.share)>>
    ELSE <<m.kind, m.proposer>>

\* HashBlock, HashVote, hashCRS, hashDKG...: the hash covers the field the
\* tests change; a complaint's hash covers its private share.
hashMessage(m) ==
    IF m.kind = "PrivateShare" THEN hashDKGPrivateShare(m)
    ELSE IF m.kind = "Complaint"
    THEN <<m.kind, m.proposer, m.field, hashDKGPrivateShare(m.share)>>
    ELSE <<m.kind, m.proposer, m.field>>

\* prv.Sign(hash(m)), and for a block signer.SignBlock after HashBlock.
SignMessage(m, key, hash) ==
    [m EXCEPT !.hash = hash, !.sig = Sign(key, hash)]

\* VerifyDKGPrivateShareSignature: the proposer is the recovered signer.
VerifyDKGPrivateShareSignature(ps) ==
    [ok |-> ps.proposer = SigToPub(hashDKGPrivateShare(ps), ps.sig),
     err |-> Nil]

\* A verification of complaints that does not look into the private share.
VerifySignatureOuterOnly(m, hash) ==
    IF m.kind = "Block"
    THEN IF hash # m.hash THEN [ok |-> FALSE, err |-> ErrIncorrectHash]
         ELSE IF m.proposer # SigToPub(m.hash, m.sig)
         THEN [ok |-> FALSE, err |-> ErrIncorrectSignature]
         ELSE [ok |-> TRUE, err |-> Nil]
    ELSE [ok |-> m.proposer = SigToPub(hash, m.sig), err |-> Nil]

\* VerifyBlockSignature (an error only; ok says it is nil),
\* VerifyVoteSignature, VerifyCRSSignature, VerifyDKG...Signature.  A
\* complaint verifies when its round is its private share's round, its
\* proposer is the recovered signer and the private share verifies.
VerifySignature(m, hash) ==
    IF m.kind = "Block"
    THEN IF hash # m.hash THEN [ok |-> FALSE, err |-> ErrIncorrectHash]
         ELSE IF m.proposer # SigToPub(m.hash, m.sig)
         THEN [ok |-> FALSE, err |-> ErrIncorrectSignature]
         ELSE [ok |-> TRUE, err |-> Nil]
    ELSE IF m.kind = "Complaint" /\ m.field # m.share.field
    THEN [ok |-> FALSE, err |-> Nil]
    ELSE IF m.proposer # SigToPub(hash, m.sig)
    THEN [ok |-> FALSE, err |-> Nil]
    ELSE IF m.kind = "Complaint"
    THEN VerifyDKGPrivateShareSignature(m.share)
    ELSE [ok |-> TRUE, err |-> Nil]

\* A private share of round r from node p, signed by p.
SignedShare(p, r) ==
    [proposer |-> p, receiver |-> 0, field |-> r,
     sig |-> Sign(p, hashDKGPrivateShare(
                        [proposer |-> p, receiver |-> 0, field |-> r])),
     modified |-> FALSE]

\* The private shares the tests put into a complaint of round r: the signed
\* share of that round, the signed share of the next round, and the share
\* of that round whose ReceiverID was changed after it was signed.
SharesFor(p, r) ==
    {SignedShare(p, r), SignedShare(p, r + 1),
     [SignedShare(p, r) EXCEPT !.receiver = 1, !.modified = TRUE]}

InitSign ==
    /\ NoObject
    /\ \E k \in Kinds, p \in Chains, r \in 0..MaxField :
         \E sh \in IF k = "Complaint" THEN SharesFor(p, r) ELSE {None} :
            msg = [m |-> [kind |-> k, proposer |-> p, receiver |-> 0,
                          field |-> r, share |-> sh, hash |-> <<>>,
                          sig |-> NoSignature],
                   signed |-> FALSE, modified |-> FALSE, verified |-> FALSE,
                   ok |-> FALSE, err |-> Nil]
    /\ twin = None /\ thr = None /\ heap = None /\ run = None /\ stats = None

\* The message is signed with its proposer's key, as every test does.
SignStep ==
    /\ msg' = [msg EXCEPT
                 !.m = SignMessage(@, @.proposer, hashMessage(@)),
                 !.signed = TRUE, !.modified = FALSE, !.verified = FALSE,
                 !.ok = FALSE, !.err = Nil]
    /\ msg' # msg
    /\ UNCHANGED <<objVars, twin, thr, heap, run, stats>>

\* vote.Type = VoteCom, block.Position.Height++, Round++: a hashed field of
\* the signed message is changed.
TamperStep ==
    /\ msg.signed
    /\ msg.m.field <= MaxField
    /\ msg' = [msg EXCEPT
                 !.m.field = @ + 1,
                 !.modified = TRUE, !.verified = FALSE,
                 !.ok = FALSE, !.err = Nil]
    /\ UNCHANGED <<objVars, twin, thr, heap, run, stats>>

VerifyStep ==
    /\ msg.signed
    /\ ~msg.verified
    /\ msg' = [msg EXCEPT
                 !.verified = TRUE,
                 !.ok = VerifySignature(msg.m, hashMessage(msg.m)).ok,
                 !.err = VerifySignature(msg.m, hashMessage(msg.m)).err]
    /\ UNCHANGED <<objVars, twin, thr, heap, run, stats>>

NextSign ==
    \/ SignStep
    \/ TamperStep
    \/ VerifyStep

SpecSign == InitSign /\ [][NextSign]_vars

ShareInOrder(m) == m.share.field = m.field /\ ~m.share.modified

TwinDeliveries ==
    {{Blk(0, 0, <<>>), Blk(1, 0, <<>>), Blk(0, 1, <<Pos(1, 0)>>),
      Blk(1, 1, <<Pos(0, 0)>>)},
     {Blk(0, 0, <<>>), Blk(1, 0, <<Pos(0, 0)>>), Blk(0, 1, <<Pos(1, 0)>>),
      Blk(1, 1, <<Pos(0, 1)>>)},
     {Blk(0, 0, <<>>), Blk(1, 0, <<>>), Blk(0, 1, <<Pos(1, 0)>>),
      Blk(1, 1, <<>>)}}

\* NewLattice: the modules of a new instance.
NewLattice ==
    [data |-> newLatticeData(0), pool |-> newBlockPool,
     to |-> newTotalOrdering, ct |-> newConsensusTimestamp, db |-> {}]

\* The blocks of left that may be given next: ascending height within each
\* chain.
NextInChain(left) ==
    {b \in left : \A x \in left : x.chain = b.chain => x.height >= b.height}

\* The instance after ProcessBlock(b) returned r.
Fed(inst, b, r) ==
    [L |-> r.L, left |-> inst.left \ {b},
     fed |-> Append(inst.fed, PosOf(b)),
     out |-> inst.out \o HashesOf(r.delivered),
     errs |-> inst.errs \/ r.err # Nil]

InitTwin ==
    /\ NoObject
    /\ \E bs \in TwinDeliveries :
         twin = [one |-> [L |-> NewLattice, left |-> bs, fed |-> <<>>,
                          out |-> <<>>, errs |-> FALSE],
                 two |-> [L |-> NewLattice, left |-> bs, fed |-> <<>>,
                          out |-> <<>>, errs |-> FALSE]]
    /\ thr = None /\ heap = None /\ msg = None /\ run = None /\ stats = None

\* The first instance is given its next block.
FeedOne ==
    \E b \in NextInChain(twin.one.left) :
        /\ twin' = [twin EXCEPT
                      !.one = Fed(@, b, ProcessBlock(@.L, FALSE, b, TRUE))]
        /\ UNCHANGED <<objVars, thr, heap, msg, run, stats>>

\* The second instance is given its next block.
FeedTwo ==
    \E b \in NextInChain(twin.two.left) :
        /\ twin' = [twin EXCEPT
                      !.two = Fed(@, b, ProcessBlock(@.L, FALSE, b, TRUE))]
        /\ UNCHANGED <<objVars, thr, heap, msg, run, stats>>

NextTwin ==
    \/ FeedOne
    \/ FeedTwo

SpecTwin == InitTwin /\ [][NextTwin]_vars

C21_ErrorFromOrderingOnly ==
    [][\A t \in Threads :
        (PB_Returns(t)
            /\ arg[t].b \notin Admitted(data)
            /\ arg[t].b \in Admitted(data')
            /\ arg[t].b.hash \in db') =>
            ret'.err \in {Nil, ErrUnexpectedBlock, ErrBatchNotContinuous}]_vars

\* The number of elements of sequence q equal to x.
RECURSIVE Count(_, _)
Count(q, x) ==
    IF q = <<>> THEN 0
    ELSE (IF Head(q) = x THEN 1 ELSE 0) + Count(Tail(q), x)

\* C22: in a ProcessBlock call that has admitted and stored its input, the
\* tip of every chain's queue, as the purge leaves it, is checked again
\* once: a tip that passes is removed and returned as verified, a tip that
\* fails with ErrAckingBlockNotExists stays and is not returned, a tip that
\* fails otherwise is removed and not returned; and no block is returned
\* as verified by more than one call.
C22_TipsRecheckedOnce ==
    [][\A t \in Threads :
        (PB_Returns(t)
            /\ arg[t].b \notin Admitted(data)
            /\ arg[t].b \in Admitted(data')
            /\ arg[t].b.hash \in db') =>
            /\ \A c \in Chains :
                IF Purged(c, arg[t].b) = <<>>
                THEN pool'[c] = <<>>
                ELSE /\ pool'[c] =
                          IF sanityCheck(data', Head(Purged(c, arg[t].b)))
                                = ErrAckingBlockNotExists
                          THEN Purged(c, arg[t].b)
                          ELSE Tail(Purged(c, arg[t].b))
                     /\ Count(ret'.verified, Head(Purged(c, arg[t].b)).hash)
                          = IF sanityCheck(data', Head(Purged(c, arg[t].b)))
                                = Nil
                            THEN 1 ELSE 0
            /\ \A h \in Range(ret'.verified) :
                \E c \in Chains :
                    /\ Purged(c, arg[t].b) # <<>>
                    /\ h = Head(Purged(c, arg[t].b)).hash
            /\ \A h \in DOMAIN hist' : Count(hist'[h], "Verified") <= 1]_vars

C22_OneVerifiedOneKept ==
    /\ ret.op = "ProcessBlock" /\ ret.err # ErrDB
    /\ Len(ret.verified) = 1
    /\ \E x \in PoolBlocks(pool) :
        /\ x.chain # ret.arg.b.chain
        /\ sanityCheck(data, x) = ErrAckingBlockNotExists

\* The hashes of the blocks the total ordering has delivered so far.
OrderedOut(o) == o.seen \ {x.hash : x \in o.cand}

\* The TotalOrderingDelivered callbacks among cbs.
BatchEvents(cbs) ==
    SelectSeq(cbs, LAMBDA e : e.kind = "TotalOrderingDelivered")

\* The hashes of the callbacks es, one callback after the other.
RECURSIVE EventHashes(_)
EventHashes(es) ==
    IF es = <<>> THEN <<>> ELSE Head(es).hashes \o EventHashes(Tail(es))

\* C23: in a ProcessBlock / processBlock call (of a Lattice with a Debug
\* installed, of a Consensus), TotalOrderingDelivered is invoked once for
\* each non-empty batch the total ordering returns in the call, with the
\* hashes of the batch in key order, and never with an empty batch; what
\* the call returns as delivered comes from these batches only.
C23_CallbackPerBatch ==
    [][(ret'.op \in {"ProcessBlock", "processBlock"}
            /\ (obj = "Consensus" \/ hasDebug)) =>
        /\ \A i \in 1 .. Len(BatchEvents(ret'.cbs)) :
            /\ BatchEvents(ret'.cbs)[i].hashes # <<>>
            /\ BatchEvents(ret'.cbs)[i].hashes =
                 HashesOf(InKeyOrder(
                    {x \in Admitted(data') :
                        x.hash \in Range(BatchEvents(ret'.cbs)[i].hashes)}))
        /\ Range(EventHashes(BatchEvents(ret'.cbs)))
             = OrderedOut(to') \ OrderedOut(to)
        /\ \A h \in OrderedOut(to') \ OrderedOut(to) :
             Count(EventHashes(BatchEvents(ret'.cbs)), h) = 1
        /\ Range(ret'.delivered)
             \subseteq Range(EventHashes(BatchEvents(ret'.cbs)))]_vars

\* The hashes the BlockDelivered callbacks of a call carried, in order.
DeliveredEvents(cbs) ==
    EventHashes(SelectSeq(cbs, LAMBDA e : e.kind = "BlockDelivered"))

IsPrefix(p, q) == Len(p) <= Len(q) /\ p = SubSeq(q, 1, Len(p))

\* C24: at every return of Consensus.processBlock, each BlockDelivered(b)
\* comes after the TotalOrderingDelivered of b's batch, with b stored in the
\* database and stamped by the timestamp module; the blocks are delivered
\* in the order of their batches, every batch in full before the next one
\* is announced; a call that returns no error has delivered every block it
\* ordered, and a call in which the compaction chain or db.Update failed
\* has delivered neither the failing block nor any block after it.
C24_DeliveredAfterStored ==
    [][ret'.op = "processBlock" =>
        /\ IsPrefix(DeliveredEvents(ret'.cbs),
                    EventHashes(BatchEvents(ret'.cbs)))
        /\ \A i \in 1 .. Len(ret'.cbs) :
             ret'.cbs[i].kind = "BlockDelivered" =>
                /\ ret'.cbs[i].hashes[1] \in db'
                /\ \E x \in Admitted(data') :
                     /\ x.hash = ret'.cbs[i].hashes[1]
                     /\ ct'.next[x.chain] > x.height
                /\ \E j \in 1 .. (i - 1) :
                     /\ ret'.cbs[j].kind = "TotalOrderingDelivered"
                     /\ ret'.cbs[i].hashes[1] \in Range(ret'.cbs[j].hashes)
        /\ \A j \in 1 .. Len(ret'.cbs) :
             ret'.cbs[j].kind = "TotalOrderingDelivered" =>
                DeliveredEvents(SubSeq(ret'.cbs, 1, j)) =
                    EventHashes(BatchEvents(SubSeq(ret'.cbs, 1, j - 1)))
        /\ ret'.err = Nil =>
             DeliveredEvents(ret'.cbs) = EventHashes(BatchEvents(ret'.cbs))
        /\ (ret'.err = ErrDB /\ dbUp /\ BatchEvents(ret'.cbs) # <<>>) =>
             /\ Len(DeliveredEvents(ret'.cbs))
                  < Len(EventHashes(BatchEvents(ret'.cbs)))
             /\ ret'.cbs[Len(ret'.cbs)].kind
                  \in {"TotalOrderingDelivered", "BlockDelivered"}]_vars

\* db.Update failed at the second block of a call: the first one was
\* delivered, the second was not.
C24_SecondBlockFails ==
    /\ ret.op = "processBlock"
    /\ ret.err = ErrDB
    /\ dbUp
    /\ Len(DeliveredEvents(ret.cbs)) = 1
    /\ Len(EventHashes(BatchEvents(ret.cbs))) >= 2

\* The rounds a module holds a config for, given the last round appended
\* to it: NewLattice gives every module the config of its first round.
ConfigRounds(lastRound) == 0 .. lastRound

\* C25: when a call of Lattice.AppendConfig returns, with or without an
\* error, the lattice data, the total ordering and the timestamp module
\* hold configs for the same rounds, and a call that returns an error has
\* changed none of the three.
C25_ModulesHoldSameRounds ==
    [][ret'.op = "AppendConfig" =>
        /\ ConfigRounds(rounds'.data) = ConfigRounds(rounds'.to)
        /\ ConfigRounds(rounds'.to) = ConfigRounds(rounds'.ct)
        /\ ret'.err # Nil =>
             /\ rounds'.data = rounds.data
             /\ rounds'.to = rounds.to
             /\ rounds'.ct = rounds.ct]_vars

\* A call of AppendConfig was refused after the config of round 1 had been
\* appended.
C25_RefusedAfterAppend ==
    /\ ret.op = "AppendConfig"
    /\ ret.err = ErrConfigOutOfOrder
    /\ rounds.data = 1

\* ------------------------------------------------------------------------
\* The goroutines of Consensus.Run and Consensus.RunLegacy
\* (core/consensus.go, lines 101-112 and 310-577), for one chain: the loops
\* of two chains share the cancellation and the ticker only.
\*   mode       : the entry point, "Run" or "RunLegacy"
\*   done       : ctx.Done() is closed
\*   crashed    : a panic has ended the process
\*   dkgRunning : con.dkgRunning
\*   L          : the holder of dkgReady.L
\*   main       : where the goroutine that called Run / RunLegacy is
\*   calls      : the calls of runDKGTSIG other goroutines still make
\*   other      : where the goroutine making these calls is
\*   starts     : the DKG goroutines started so far
\*   dkg        : where the DKG goroutine is;  panicked: it ended in a panic
\*   ba         : where runBA is;  clocksLeft: ticks it waits for
\*   restart    : the tokens in the receiver's restart channel (capacity 1)
\*   ticks      : the goroutines of Run waiting to send on runBA's tick
\*   msg        : where processMsg is;  wit: where processWitnessData is
\*   height     : rbModule.nextHeight of the chain
\*   aID        : the height the agreement was last restarted at
\*   hasOutput  : the agreement has confirmed a block since its restart
\*   conf       : what the last ConfirmBlock found
\*   sent, restarts, blocks : signals sent by ConfirmBlock, restarts made,
\*                blocks proposed by the proposing loop

\* The calls of runDKGTSIG made besides the one of Run.
MaxDKGCalls == 1
\* The most goroutines waiting to send a tick.
MaxTicks == 1
\* agreement.clocks() ranges over 0 .. MaxClocks.
MaxClocks == 1
\* The blocks ConfirmBlock processes in a run.
MaxConfirm == 2
\* The blocks the proposing loop of RunLegacy proposes in a run.
MaxProposed == 2

\* NewConsensus, lines 285-291 (restart: make(chan struct{}, 1)), and the
\* zero values of the fields.
NewRun(mode) ==
    [mode |-> mode, done |-> FALSE, crashed |-> FALSE, dkgRunning |-> 0,
     L |-> "free", main |-> "start", calls |-> MaxDKGCalls,
     other |-> "idle", starts |-> 0, dkg |-> "none", panicked |-> FALSE,
     ba |-> "none", clocksLeft |-> 0, restart |-> 0, ticks |-> 0,
     msg |-> "none", wit |-> "none", height |-> 0, aID |-> -1,
     hasOutput |-> FALSE, conf |-> [exist |-> FALSE, ok |-> FALSE],
     sent |-> 0, restarts |-> 0, blocks |-> 0]

InitRun ==
    /\ NoObject
    /\ run \in {NewRun(mode) : mode \in {"Run", "RunLegacy"}}
    /\ twin = None /\ thr = None /\ heap = None /\ msg = None
    /\ stats = None

\* The step of a goroutine: the process has not crashed.
RunStep(r) ==
    /\ ~run.crashed
    /\ run' = r
    /\ UNCHANGED <<objVars, twin, thr, heap, msg, stats>>

\* Run, line 311: go con.processMsg(...); then the call of runDKGTSIG.
Run_Start ==
    /\ run.mode = "Run" /\ run.main = "start"
    /\ RunStep([run EXCEPT !.msg = "recv", !.main = "callDKG"])

\* runDKGTSIG with a goroutine started at every call.
runDKGTSIGUnguarded(r) ==
    [r EXCEPT !.dkgRunning = 1, !.dkg = "running", !.starts = @ + 1,
              !.L = "free"]

\* runDKGTSIG, lines 380-386, under dkgReady.L: nothing when the DKG was
\* started before; else the goroutine is started.  The deferred Unlock.
runDKGTSIG(r) ==
    IF r.dkgRunning # 0
    THEN [r EXCEPT !.L = "free"]
    ELSE [r EXCEPT !.dkgRunning = 1, !.dkg = "running", !.starts = @ + 1,
                   !.L = "free"]

\* runDKGTSIG, line 380, called by Run: con.dkgReady.L.Lock().
runDKGTSIG_Lock ==
    /\ run.main = "callDKG" /\ run.L = "free"
    /\ RunStep([run EXCEPT !.L = "main", !.main = "inDKG"])

\* runDKGTSIG, lines 381-386, called by Run.
runDKGTSIG_Body ==
    /\ run.main = "inDKG"
    /\ RunStep([runDKGTSIG(run) EXCEPT !.main = "lock"])

\* runDKGTSIG called by another goroutine: line 380.
Other_Lock ==
    /\ run.other = "idle" /\ run.calls > 0 /\ run.L = "free"
    /\ RunStep([run EXCEPT !.L = "other", !.other = "inDKG"])

\* runDKGTSIG called by another goroutine: lines 381-386.
Other_Body ==
    /\ run.other = "inDKG"
    /\ RunStep([runDKGTSIG(run) EXCEPT !.other = "idle", !.calls = @ - 1])

\* The DKG goroutine, lines 393-416: it runs to its end or panics.
DKG_Body ==
    \E p \in BOOLEAN :
        /\ run.dkg = "running"
        /\ RunStep([run EXCEPT !.dkg = "deferred", !.panicked = p])

\* The deferred function of the DKG goroutine, line 388: Lock.
DKG_DeferLock ==
    /\ run.dkg = "deferred" /\ run.L = "free"
    /\ RunStep([run EXCEPT !.L = "dkg", !.dkg = "deferLocked"])

\* The deferred function that sets dkgRunning and wakes nobody.
dkgDeferredNoBroadcast(r) ==
    [r EXCEPT !.dkgRunning = 2, !.L = "free",
              !.dkg = IF r.panicked THEN "panicking" ELSE "finished"]

\* The deferred function, lines 389-391, under the lock: Broadcast wakes
\* Run if it waits, dkgRunning = 2, Unlock.
dkgDeferred(r) ==
    [r EXCEPT !.main = IF r.main = "wait" THEN "woken" ELSE @,
              !.dkgRunning = 2, !.L = "free",
              !.dkg = IF r.panicked THEN "panicking" ELSE "finished"]

DKG_Deferred ==
    /\ run.dkg = "deferLocked"
    /\ RunStep(dkgDeferred(run))

\* A panic that is not recovered ends the process once the deferred
\* functions have run.
DKG_Panic ==
    /\ run.dkg = "panicking"
    /\ RunStep([run EXCEPT !.crashed = TRUE])

\* Run, line 313: con.dkgReady.L.Lock().
Run_Lock ==
    /\ run.main = "lock" /\ run.L = "free"
    /\ RunStep([run EXCEPT !.L = "main", !.main = "check"])

\* Run, lines 315-317: the wait loop.  Wait unlocks and suspends; past the
\* loop the lock stays held, Run never returns.
Run_Check ==
    /\ run.main = "check"
    /\ RunStep(IF run.dkgRunning # 2
               THEN [run EXCEPT !.L = "free", !.main = "wait"]
               ELSE [run EXCEPT !.main = "spawn"])

\* Run, line 316: Wait returns with the lock once it was woken.
Run_Woken ==
    /\ run.main = "woken" /\ run.L = "free"
    /\ RunStep([run EXCEPT !.L = "main", !.main = "check"])

\* Run, lines 318-324: go con.runBA(i, tick); go con.processWitnessData().
Run_Spawn ==
    /\ run.main = "spawn"
    /\ RunStep([run EXCEPT !.ba = "sendRestart", !.wit = "loop",
                           !.main = "tick1"])

\* Run, lines 327-328: the two ticks that reset the ticker.
Run_ResetTick ==
    /\ run.main \in {"tick1", "tick2"}
    /\ RunStep([run EXCEPT
                  !.main = IF run.main = "tick1" THEN "tick2" ELSE "loop"])

\* Run, lines 329-334: a tick, and a goroutine that sends it to runBA.
Run_Tick ==
    /\ run.main = "loop" /\ run.ticks < MaxTicks
    /\ RunStep([run EXCEPT !.ticks = @ + 1])

\* runBA, line 346: recv.restart <- struct{}{}; it blocks while the channel
\* is full.
runBA_SendRestart ==
    /\ run.ba = "sendRestart" /\ run.restart = 0
    /\ RunStep([run EXCEPT !.restart = 1, !.ba = "firstTick"])

\* runBA, line 348: <-tick.
runBA_FirstTick ==
    /\ run.ba = "firstTick" /\ run.ticks > 0
    /\ RunStep([run EXCEPT !.ticks = @ - 1, !.ba = "top"])

\* runBA, lines 350-356: the loop ends when ctx.Done() is closed; else it
\* waits for agreement.clocks() ticks.
runBA_Top ==
    \E clocks \in 0 .. MaxClocks :
        /\ run.ba = "top"
        /\ RunStep(IF run.done
                   THEN [run EXCEPT !.ba = "exited"]
                   ELSE [run EXCEPT !.ba = "clocks", !.clocksLeft = clocks])

\* runBA, lines 356-358: <-tick.
runBA_Clock ==
    /\ run.ba = "clocks" /\ run.clocksLeft > 0 /\ run.ticks > 0
    /\ RunStep([run EXCEPT !.ticks = @ - 1, !.clocksLeft = @ - 1])

\* runBA, lines 359-369: a token in restart restarts the agreement at the
\* next height of the chain; without one nothing is done.
runBA_Select ==
    /\ run.ba = "clocks" /\ run.clocksLeft = 0
    /\ RunStep(IF run.restart > 0
               THEN [run EXCEPT !.restart = 0, !.aID = run.height,
                                !.hasOutput = FALSE, !.restarts = @ + 1,
                                !.ba = "nextState"]
               ELSE [run EXCEPT !.ba = "nextState"])

\* runBA, lines 370-374: agreement.nextState(); an error ends the loop.
runBA_NextState ==
    \E err \in BOOLEAN :
        /\ run.ba = "nextState"
        /\ RunStep([run EXCEPT !.ba = IF err THEN "exited" ELSE "top"])

\* ConfirmBlock, lines 102-110: the candidate block is looked up and
\* processed; exist and ok tell whether it was found and processBlock
\* returned no error.  Only then the signal is sent next.
ConfirmBlock(r, exist, ok) ==
    IF exist /\ ok
    THEN [r EXCEPT !.conf = [exist |-> exist, ok |-> ok],
                   !.height = @ + 1, !.msg = "signal"]
    ELSE [r EXCEPT !.conf = [exist |-> exist, ok |-> ok]]

\* processMsg, lines 484-504: a vote is received and given to ProcessVote
\* (538-542); the agreement confirms a block at most once between two
\* restarts and calls ConfirmBlock of its receiver.
processMsg_Vote ==
    \E exist \in BOOLEAN, ok \in BOOLEAN :
        /\ run.msg = "recv" /\ ~run.hasOutput /\ run.height < MaxConfirm
        /\ RunStep(ConfirmBlock([run EXCEPT !.hasOutput = TRUE], exist, ok))

\* ConfirmBlock, line 111: recv.restart <- struct{}{}; it blocks while the
\* channel is full.
ConfirmBlock_Signal ==
    /\ run.msg = "signal" /\ run.restart = 0
    /\ RunStep([run EXCEPT !.restart = 1, !.sent = @ + 1, !.msg = "recv"])

\* processMsg, lines 488-489: case <-con.ctx.Done(): return.
processMsg_Return ==
    /\ run.msg = "recv" /\ run.done
    /\ RunStep([run EXCEPT !.msg = "returned"])

\* processWitnessData, lines 549-551: case <-con.ctx.Done(): return.
Witness_Return ==
    /\ run.wit = "loop" /\ run.done
    /\ RunStep([run EXCEPT !.wit = "returned"])

\* processWitnessData, lines 552-573: a result whose block the database
\* cannot give or update panics.
Witness_Panic ==
    /\ run.wit = "loop"
    /\ RunStep([run EXCEPT !.crashed = TRUE])

\* RunLegacy, lines 422-451: the two goroutines, then the genesis block.
Legacy_Start ==
    /\ run.mode = "RunLegacy" /\ run.main = "start"
    /\ RunStep([run EXCEPT !.msg = "recv", !.wit = "loop",
                           !.main = "legacyLoop"])

\* RunLegacy, lines 453-473: on a tick a block is prepared, processed and
\* broadcast.
Legacy_Tick ==
    /\ run.main = "legacyLoop" /\ run.blocks < MaxProposed
    /\ RunStep([run EXCEPT !.blocks = @ + 1])

\* RunLegacy, lines 457-458: case <-con.ctx.Done(): break.
Legacy_Done ==
    /\ run.main = "legacyLoop" /\ run.done
    /\ RunStep([run EXCEPT !.main = "legacyEnded"])

\* Stop, lines 477-479.
Run_Stop ==
    /\ ~run.done
    /\ RunStep([run EXCEPT !.done = TRUE])

NextRun ==
    \/ Run_Start
    \/ runDKGTSIG_Lock
    \/ runDKGTSIG_Body
    \/ Other_Lock
    \/ Other_Body
    \/ DKG_Body
    \/ DKG_DeferLock
    \/ DKG_Deferred
    \/ DKG_Panic
    \/ Run_Lock
    \/ Run_Check
    \/ Run_Woken
    \/ Run_Spawn
    \/ Run_ResetTick
    \/ Run_Tick
    \/ runBA_SendRestart
    \/ runBA_FirstTick
    \/ runBA_Top
    \/ runBA_Clock
    \/ runBA_Select
    \/ runBA_NextState
    \/ processMsg_Vote
    \/ ConfirmBlock_Signal
    \/ processMsg_Return
    \/ Witness_Return
    \/ Witness_Panic
    \/ Legacy_Start
    \/ Legacy_Tick
    \/ Legacy_Done
    \/ Run_Stop

SpecRun == InitRun /\ [][NextRun]_vars

\* The scheduler runs every goroutine that can take a step; a mutex that is
\* freed again and again is given to each goroutine that waits for it; a
\* select takes each case that is ready again and again; the ticker keeps
\* ticking.  The environment owes nothing: no vote, no Stop, no call.
FairRun ==
    /\ WF_vars(Run_Start) /\ WF_vars(runDKGTSIG_Body)
    /\ SF_vars(runDKGTSIG_Lock) /\ SF_vars(Run_Lock) /\ SF_vars(Run_Woken)
    /\ SF_vars(DKG_DeferLock)
    /\ WF_vars(Other_Body)
    /\ WF_vars(DKG_Body) /\ WF_vars(DKG_Deferred) /\ WF_vars(DKG_Panic)
    /\ WF_vars(Run_Check) /\ WF_vars(Run_Spawn) /\ WF_vars(Run_ResetTick)
    /\ WF_vars(Run_Tick)
    /\ WF_vars(runBA_SendRestart) /\ WF_vars(runBA_FirstTick)
    /\ WF_vars(runBA_Top) /\ WF_vars(runBA_Clock) /\ WF_vars(runBA_Select)
    /\ WF_vars(runBA_NextState)
    /\ WF_vars(ConfirmBlock_Signal)
    /\ SF_vars(processMsg_Return) /\ SF_vars(Witness_Return)
    /\ SF_vars(Legacy_Done)
    /\ WF_vars(Legacy_Start)

SpecRunFair == SpecRun /\ FairRun

\* C26: in a run of Consensus.Run, while dkgRunning is not 2 no runBA and
\* no processWitnessData has been started and no tick of the ticker has been
\* consumed; and at most one DKG goroutine is started, however often
\* runDKGTSIG is called.
C26_NothingBeforeDKGDone ==
    (run.mode = "Run") =>
        /\ run.dkgRunning # 2 =>
             /\ run.ba = "none"
             /\ run.wit = "none"
             /\ run.main \notin {"tick2", "loop"}
             /\ run.ticks = 0
        /\ run.dkgRunning = 2 => run.dkg \in {"finished", "panicking"}
        /\ run.starts <= 1
        /\ run.starts = 1 <=> run.dkgRunning # 0

\* runDKGTSIG was called again after the DKG goroutine had been started,
\* and Run has started runBA.
C26_CalledTwiceAndStarted ==
    /\ run.mode = "Run"
    /\ run.calls = 0
    /\ run.starts = 1
    /\ run.ba # "none"

\* C27: once the DKG goroutine has finished without a panic, Run leaves its
\* wait loop and starts runBA, under every interleaving.
C27_NoLostWakeup ==
    (run.mode = "Run" /\ run.dkg = "finished") ~> (run.ba # "none")

\* Run was waiting on the condition when the DKG goroutine finished without
\* a panic, and has been woken.
C27_WokenAfterWait ==
    /\ run.mode = "Run"
    /\ run.dkg = "finished"
    /\ run.main = "woken"

\* C28: every call of agreement.nextState finds no restart signal
\* outstanding (the agreement was restarted since the last signal); a
\* restart takes the next height of the chain as it is at that moment;
\* ConfirmBlock sends the signal only when the block was found and
\* processed without error; and every signal sent is in the channel or has
\* restarted the agreement.
C28_RestartBeforeNextState ==
    [][/\ (run.ba = "nextState" /\ run'.ba # "nextState") =>
             run.restart = 0
       /\ run'.restarts > run.restarts => run'.aID = run.height
       /\ run'.sent > run.sent => (run.conf.exist /\ run.conf.ok)
       /\ run'.ba # "none" =>
             run'.sent + (IF run'.ba = "sendRestart" THEN 0 ELSE 1)
                = run'.restarts + run'.restart]_vars

\* C29: once Stop was called, processMsg returns, runBA leaves its loop,
\* the proposing loop of RunLegacy ends and processWitnessData returns (or
\* the process has ended).
C29_LoopsExitAfterStop ==
    run.done ~>
        \/ run.crashed
        \/ /\ run.msg = "returned"
           /\ run.wit = "returned"
           /\ run.mode = "Run" => run.ba = "exited"
           /\ run.mode = "RunLegacy" => run.main = "legacyEnded"

\* ------------------------------------------------------------------------
\* NewStats (integration, src/unnamed/part_000).  An event of the history
\* is its payload's kind and its node:
\*   "propose", "receive" : a consensus event payload of that type
\*   "unknownType"        : a consensus event payload of another type
\*   "unknownPayload"     : a payload that is no consensus event payload
\* stats holds the history, the index of the next event, the counters of
\* stats.All and stats.ByNode, the error of calculate, the value NewStats
\* holds in stats, where the call is, and app: the maps of the node's
\* test.App that hold the block of the last receive event.

\* The histories hold up to MaxHistory events.
MaxHistory == 4

StatNodes == {"n1", "n2"}

EventKinds == {"propose", "receive", "unknownType", "unknownPayload"}

StatEvents == [kind : EventKinds, node : StatNodes]

Histories == UNION {[1 .. n -> StatEvents] : n \in 0 .. MaxHistory}

\* The errors of calculate, lines 12-15.
ErrUnknownEvent == "ErrUnknownEvent"
ErrUnknownConsensusEventType == "ErrUnknownConsensusEventType"

\* The maps of test.App a block is looked up in: app.Acked,
\* app.TotalOrderedByHash, app.Delivered.  A block may be in any of them.
AppMaps == {"Acked", "TotalOrderedByHash", "Delivered"}

\* &StatsSet{}: the counters.
NewStatsSet ==
    [proposed |-> 0, received |-> 0, acked |-> 0, ordered |-> 0,
     delivered |-> 0]

\* NewStats, lines 105-108.
InitStats ==
    /\ NoObject
    /\ stats \in {[history |-> h, i |-> 1, all |-> NewStatsSet,
                   byNode |-> <<>>, err |-> Nil, value |-> "stats",
                   at |-> "calculate", app |-> {}] : h \in Histories}
    /\ twin = None /\ thr = None /\ heap = None /\ msg = None
    /\ run = None

\* newBlockProposeEvent, lines 32-43.
newBlockProposeEvent(set) == [set EXCEPT !.proposed = @ + 1]

\* newBlockReceiveEvent with each map looked up on its own.
newBlockReceiveEventEach(set, app) ==
    [set EXCEPT
       !.received = @ + 1,
       !.acked = IF "Acked" \in app THEN @ + 1 ELSE @,
       !.ordered = IF "TotalOrderedByHash" \in app THEN @ + 1 ELSE @,
       !.delivered = IF "Delivered" \in app THEN @ + 1 ELSE @]

\* The function newBlockReceiveEvent hands to app.Check, lines 61-79: the
\* three lookups, each returning when the block is missing.
checkBlock(set, app) ==
    IF "Acked" \notin app
    THEN set
    ELSE IF "TotalOrderedByHash" \notin app
    THEN [set EXCEPT !.acked = @ + 1]
    ELSE IF "Delivered" \notin app
    THEN [set EXCEPT !.acked = @ + 1, !.ordered = @ + 1]
    ELSE [set EXCEPT !.acked = @ + 1, !.ordered = @ + 1,
                     !.delivered = @ + 1]

\* test.App.Check: calls the function it is given once, with the app.
Check(set, app) == checkBlock(set, app)

\* newBlockReceiveEvent, lines 46-80: ReceivedBlockCount++, then app.Check.
newBlockReceiveEvent(set, app) ==
    Check([set EXCEPT !.received = @ + 1], app)

\* calculate, lines 131-141: the switch on payload.Type.
countEvent(set, kind, app) ==
    IF kind = "propose" THEN newBlockProposeEvent(set)
    ELSE newBlockReceiveEvent(set, app)

\* getStatsSetByNode, lines 149-158.
getStatsSetByNode(byNode, n) ==
    IF n \in DOMAIN byNode THEN byNode[n] ELSE NewStatsSet

\* calculate, lines 126-144: one event of the history; app holds the maps
\* of apps[e.NodeID] the event's block is in.
calculateEvent(st, e, app) ==
    IF e.kind = "unknownPayload"
    THEN [st EXCEPT !.err = ErrUnknownEvent, !.at = "deferred"]
    ELSE IF e.kind = "unknownType"
    THEN [st EXCEPT !.err = ErrUnknownConsensusEventType,
                    !.at = "deferred"]
    ELSE [st EXCEPT
            !.all = countEvent(@, e.kind, app),
            !.byNode = [n \in DOMAIN @ \cup {e.node} |->
                          IF n = e.node
                          THEN countEvent(getStatsSetByNode(@, n), e.kind,
                                          app)
                          ELSE @[n]],
            !.app = IF e.kind = "receive" THEN app ELSE {},
            !.i = @ + 1]

\* done, lines 84-89: an integer division by zero panics.
donePanics(set, nodeCount) ==
    \/ set.proposed - nodeCount = 0
    \/ set.received = 0
    \/ set.proposed = 0

\* calculate, lines 119-124: the deferred function.
deferredPanics(st) ==
    \/ donePanics(st.all, Cardinality(DOMAIN st.byNode))
    \/ \E n \in DOMAIN st.byNode : donePanics(st.byNode[n], 1)

\* summary, lines 160-166: stats.ByNode of a nil *Stats, and the division
\* by len(stats.ByNode).
summaryPanics(st) ==
    \/ st.value = "nil"
    \/ DOMAIN st.byNode = {}
    \/ st.history = <<>>

StatsStep(st) ==
    /\ stats' = st
    /\ UNCHANGED <<objVars, twin, thr, heap, msg, run>>

\* calculate, line 126: the loop over the history.
Calc_Event ==
    /\ stats.at = "calculate" /\ stats.i <= Len(stats.history)
    /\ \E app \in SUBSET AppMaps :
         StatsStep(calculateEvent(stats, stats.history[stats.i], app))

\* calculate, line 146: return nil.
Calc_Return ==
    /\ stats.at = "calculate" /\ stats.i > Len(stats.history)
    /\ StatsStep([stats EXCEPT !.at = "deferred"])

\* calculate's deferred function, then NewStats, lines 109-111: on an
\* error stats = nil.
Calc_Deferred ==
    /\ stats.at = "deferred"
    /\ StatsStep(IF deferredPanics(stats)
                 THEN [stats EXCEPT !.at = "panicked"]
                 ELSE [stats EXCEPT
                         !.value = IF stats.err # Nil THEN "nil" ELSE @,
                         !.at = "summary"])

\* NewStats, lines 112-113: stats.summary(history); return.
NewStats_Summary ==
    /\ stats.at = "summary"
    /\ StatsStep(IF summaryPanics(stats)
                 THEN [stats EXCEPT !.at = "panicked"]
                 ELSE [stats EXCEPT !.at = "returned"])

NextStats ==
    \/ Calc_Event
    \/ Calc_Return
    \/ Calc_Deferred
    \/ NewStats_Summary

SpecStats == InitStats /\ [][NextStats]_vars

\* The history holds an event that is no consensus event or is of an
\* unknown type.
HasUnknownEvent(h) ==
    \E k \in 1 .. Len(h) : h[k].kind \in {"unknownType", "unknownPayload"}

\* C30: given a history with an event whose payload is no consensus event
\* payload or whose type is neither propose nor receive, NewStats does not
\* panic, and when it has returned the Stats is nil and the error is
\* ErrUnknownEvent or ErrUnknownConsensusEventType.
C30_UnknownEventGivesError ==
    HasUnknownEvent(stats.history) =>
        /\ stats.at # "panicked"
        /\ stats.at = "returned" =>
             /\ stats.value = "nil"
             /\ stats.err \in {ErrUnknownEvent, ErrUnknownConsensusEventType}

\* The StatsSets of a Stats: stats.All and those of stats.ByNode.
StatsSets(st) == {st.all} \cup {st.byNode[n] : n \in DOMAIN st.byNode}

\* The counters of a set are in order.
CountersInOrder(set) ==
    /\ set.received >= set.acked
    /\ set.acked >= set.ordered
    /\ set.ordered >= set.delivered
    /\ set.delivered >= 0

\* What an event has added to a set: before and after.
RaisedInOrder(old, new) ==
    /\ new.received - old.received \in {0, 1}
    /\ new.acked - old.acked \in {0, 1}
    /\ new.ordered - old.ordered \in {0, 1}
    /\ new.delivered - old.delivered \in {0, 1}
    /\ new.ordered > old.ordered => new.acked > old.acked
    /\ new.delivered > old.delivered => new.ordered > old.ordered

\* C31: in stats.All and in the set of every node, after every event,
\* ReceivedBlockCount >= StronglyAckedBlockCount >= TotalOrderedBlockCount
\* >= DeliveredBlockCount >= 0; an event raises each counter of a set by
\* one at most, the total-ordered one only together with the strongly
\* acked one and the delivered one only together with the total-ordered
\* one.
C31_CountersInOrder ==
    [][/\ \A set \in StatsSets(stats') : CountersInOrder(set)
       /\ RaisedInOrder(stats.all, stats'.all)
       /\ \A n \in DOMAIN stats'.byNode :
            RaisedInOrder(getStatsSetByNode(stats.byNode, n),
                          stats'.byNode[n])]_vars

\* The block of a receive event is in app.Delivered and not in app.Acked:
\* it was counted as received only; an earlier block was counted as
\* delivered.
C31_DeliveredButNotAcked ==
    /\ stats.app = {"Delivered"}
    /\ stats.all.received = 2
    /\ stats.all.acked = 1
    /\ stats.all.delivered = 1

====
